---- MODULE Spec2Model ----
(***************************************************************************)
(* Model of the Gramin Sahayak Telegram bot: the per-user conversation     *)
(* state machine of src/bots/telegram_bot.py (the handlers registered in   *)
(* main, dispatched in registration order through the three                *)
(* ConversationHandlers) and the loan decision service of                  *)
(* src/services/loan_service.py.                                           *)
(*                                                                         *)
(* Conventions.  A message text is a sequence of one-character strings.    *)
(* Money amounts and tenures are integers (the float values the code       *)
(* stores are integer-valued for every text of the model: no text holds a  *)
(* decimal point).  Interest rates are in tenths of a percent (85 = 8.5%). *)
(* A reply is recorded by its kind (which template was sent), not by its   *)
(* wording.  Python dicts are functions; a missing key is a key outside    *)
(* the DOMAIN.                                                             *)
(***************************************************************************)
EXTENDS Integers, Sequences, FiniteSets, TLC

VARIABLES
    conversations,  \* conversations[u][c]: state of user u in ConversationHandler c
    user_data,      \* user_data[u]: context.user_data of user u
    preferences,    \* preferences[u]: the UserPreference row of user u, or NoRow
    loan_service,   \* loan_service.model: "loaded", or "no_model" (None)
    last,           \* what processing the last update did (observable outcome)
    run,            \* per user: progress of an undisturbed form run (history)
    tenure_years,   \* per user: the years the tenure step accepted in the
                    \* current loan form, 0 before it did (history)
    api,            \* the stateless API: the classifier's declared columns,
                    \* the last /loan/check-eligibility request and its answer
    inactive,       \* per user: the time since the user's last message is
                    \* beyond the idle threshold of the specification
    update_queue,   \* the updates fetched and not yet given to a handler
                    \* (Application.update_queue), oldest first
    handling,       \* the updates whose handler has started and not returned
    deliveries,     \* per user: what the last daily broadcast did for the user
    before_language, \* per user: the preference row when the user's last
                    \* /language was taken (history)
    broadcast       \* the run of send_daily_advisories: the rows its query
                    \* returned, the position of its loop, and per user how
                    \* often the loop body was entered

vars ==
    <<conversations, user_data, preferences, loan_service, last, run,
      tenure_years, api, inactive, update_queue, handling, deliveries,
      before_language, broadcast>>

----------------------------------------------------------------------------
(* Bounds of the model *)

\* dependents counts the user answers with are 0..MaxDependents (and -1)
MaxDependents == 0
\* money answers (income, loan amount, assets) are 0..MaxMoney (and -1)
MaxMoney == 1

Users == {"u1", "u2"}

\* loan amounts of the EMI calculator's queries are 1..MaxPrincipal
MaxPrincipal == 10
\* tenures of the EMI calculator's queries are 0..MaxTenure months
MaxTenure == 3

\* updates fetched and not yet handled to the end are at most MaxQueue
MaxQueue == 2

----------------------------------------------------------------------------
(* Python dicts *)

EmptyDict == [k \in {} |-> TRUE]

Put(d, k, v) == [x \in (DOMAIN d) \cup {k} |-> IF x = k THEN v ELSE d[x]]

Pop(d, k) == [x \in (DOMAIN d) \ {k} |-> d[x]]

Has(d, k) == k \in DOMAIN d

----------------------------------------------------------------------------
(* Texts and their parsing *)

DigitChars == <<"0", "1", "2", "3", "4", "5", "6", "7", "8", "9">>

UpperChars == <<"A", "B", "C", "D", "E", "F", "G", "H", "I", "J", "K", "L", "M",
                "N", "O", "P", "Q", "R", "S", "T", "U", "V", "W", "X", "Y", "Z">>

LowerChars == <<"a", "b", "c", "d", "e", "f", "g", "h", "i", "j", "k", "l", "m",
                "n", "o", "p", "q", "r", "s", "t", "u", "v", "w", "x", "y", "z">>

IsDigit(c) == \E i \in 1..10 : DigitChars[i] = c

DigitValue(c) == (CHOOSE i \in 1..10 : DigitChars[i] = c) - 1

\* str.lower() on one character
LowerChar(c) ==
    IF \E i \in 1..26 : UpperChars[i] = c
    THEN LowerChars[CHOOSE i \in 1..26 : UpperChars[i] = c]
    ELSE c

\* str.lower()
Lower(t) == [i \in 1..Len(t) |-> LowerChar(t[i])]

\* needle in haystack (Python's `in` on str)
Contains(haystack, needle) ==
    \E i \in 0..(Len(haystack) - Len(needle)) :
        \A j \in 1..Len(needle) : haystack[i + j] = needle[j]

\* str.replace(',', '')
RECURSIVE RemoveCommas(_)
RemoveCommas(t) ==
    IF t = <<>> THEN <<>>
    ELSE IF Head(t) = "," THEN RemoveCommas(Tail(t))
    ELSE <<Head(t)>> \o RemoveCommas(Tail(t))

AllDigits(t) == Len(t) > 0 /\ \A i \in 1..Len(t) : IsDigit(t[i])

RECURSIVE DigitsValue(_)
DigitsValue(t) ==
    IF t = <<>> THEN 0
    ELSE 10 * DigitsValue(SubSeq(t, 1, Len(t) - 1)) + DigitValue(t[Len(t)])

\* The literals int() takes among the model's texts: an optional sign and digits.
IsNumberLiteral(t) ==
    /\ Len(t) > 0
    /\ IF t[1] \in {"-", "+"} THEN AllDigits(Tail(t)) ELSE AllDigits(t)

NumberValue(t) ==
    IF t[1] = "-" THEN 0 - DigitsValue(Tail(t))
    ELSE IF t[1] = "+" THEN DigitsValue(Tail(t))
    ELSE DigitsValue(t)

RECURSIVE NatText(_)
NatText(n) ==
    IF n < 10 THEN <<DigitChars[n + 1]>>
    ELSE NatText(n \div 10) \o <<DigitChars[(n % 10) + 1]>>

\* the text a user types for the integer n
IntText(n) == IF n < 0 THEN <<"-">> \o NatText(0 - n) ELSE NatText(n)

IsCommand(t) == Len(t) > 1 /\ t[1] = "/"

\* the command of a command message, as CommandHandler compares it
CommandName(t) == Lower(Tail(t))

----------------------------------------------------------------------------
(* The users' messages.  Every text of the model is in AllTexts, so what  *)
(* the parsers make of a text is computed once per text.                   *)

NameStart == <<"s", "t", "a", "r", "t">>
NameAdvisory == <<"a", "d", "v", "i", "s", "o", "r", "y">>
NameExplain == <<"e", "x", "p", "l", "a", "i", "n">>
NameSchemes == <<"s", "c", "h", "e", "m", "e", "s">>
NameCancel == <<"c", "a", "n", "c", "e", "l">>
NameLanguage == <<"l", "a", "n", "g", "u", "a", "g", "e">>
NameLoan == <<"l", "o", "a", "n">>
NameFraud == <<"f", "r", "a", "u", "d">>

Slash(name) == <<"/">> \o name

Commands ==
    {Slash(NameStart), Slash(NameLanguage), Slash(NameLoan), Slash(NameFraud),
     Slash(NameCancel)}

LoanCommands == {Slash(NameLoan), Slash(NameCancel)}

TextGraduate == <<"G", "r", "a", "d", "u", "a", "t", "e">>
TextNotGraduate == <<"N", "o", "t", " ", "G", "r", "a", "d", "u", "a", "t", "e">>
TextYes == <<"Y", "e", "s">>
TextNo == <<"N", "o">>
TextEnglish == <<"E", "n", "g", "l", "i", "s", "h">>
TextDelhi == <<"D", "e", "l", "h", "i">>
TextJaipur == <<"J", "a", "i", "p", "u", "r">>
TextThousand == <<"1", ",", "0", "0", "0">>

ValidatedSteps ==
    {"loan_dependents", "loan_income", "loan_amount", "loan_term", "loan_credit",
     "loan_residential", "loan_commercial", "loan_luxury", "loan_bank"}

AnswerSteps ==
    ValidatedSteps \cup
    {"language_selected", "location_received", "loan_education",
     "loan_employment", "fraud_scheme_name", "fraud_description", "fraud_source",
     "handle_text_query"}

\* One well-formed answer to each step.
Canonical(callback) ==
    IF callback = "language_selected" THEN TextEnglish
    ELSE IF callback = "location_received" THEN TextJaipur
    ELSE IF callback = "loan_education" THEN TextGraduate
    ELSE IF callback = "loan_employment" THEN TextNo
    ELSE IF callback = "loan_dependents" THEN IntText(0)
    ELSE IF callback \in {"loan_income", "loan_amount"} THEN IntText(1)
    ELSE IF callback = "loan_term" THEN IntText(1)
    ELSE IF callback = "loan_credit" THEN IntText(300)
    ELSE IF callback \in ValidatedSteps THEN IntText(0)
    ELSE TextNo

\* The answers of the three-form sessions: the well-formed one and, at a
\* validated step, one that is no number.
Answers ==
    [callback \in AnswerSteps |->
        {Canonical(callback)} \cup
        (IF callback \in ValidatedSteps THEN {TextNo} ELSE {})]

\* The answers of the loan dialogue, step by step.
LoanAnswers ==
    [callback \in AnswerSteps |->
        IF callback = "loan_education" THEN {TextGraduate, TextNotGraduate}
        ELSE IF callback = "loan_employment" THEN {TextNo, TextYes}
        ELSE IF callback = "loan_dependents"
        THEN {IntText(n) : n \in -1..MaxDependents} \cup {TextNo, TextThousand}
        ELSE IF callback \in {"loan_income", "loan_amount"}
        THEN {IntText(n) : n \in -1..MaxMoney} \cup {TextNo}
        ELSE IF callback = "loan_term"
        THEN {IntText(n) : n \in {0, 1, 10, 30, 31}} \cup {TextNo}
        ELSE IF callback = "loan_credit"
        THEN {IntText(n) : n \in {299, 300, 900, 901}} \cup {TextNo}
        ELSE IF callback = "loan_bank"
        THEN {IntText(-1), IntText(0), TextThousand, TextNo}
        ELSE IF callback \in ValidatedSteps
        THEN {IntText(-1), IntText(0), TextNo}
        ELSE {TextNo}]

\* The language names of the selection keyboard and of LANGUAGE_MAP.  A
\* name written in its own script is one character of the model: it has no
\* upper or lower case.
TextHindi == <<"H", "i", "n", "d", "i">>
TextPunjabi == <<"P", "u", "n", "j", "a", "b", "i">>
TextMalayalam == <<"M", "a", "l", "a", "y", "a", "l", "a", "m">>
TextTamil == <<"T", "a", "m", "i", "l">>
TextENGLISH == <<"E", "N", "G", "L", "I", "S", "H">>
NativeHindi == <<"(Hindi in Devanagari)">>
NativePunjabi == <<"(Punjabi in Gurmukhi)">>
NativeMalayalam == <<"(Malayalam in Malayalam script)">>
NativeTamil == <<"(Tamil in Tamil script)">>

Both(native, latin) == native \o <<" ", "/", " ">> \o latin

\* the keyboard of language_command, lines 204-208
keyboard ==
    {TextEnglish, Both(NativeHindi, TextHindi),
     Both(NativePunjabi, TextPunjabi), Both(NativeMalayalam, TextMalayalam),
     Both(NativeTamil, TextTamil)}

\* The answers of the onboarding dialogue: a button of the keyboard, or a
\* language name typed in some case.
OnboardingAnswers ==
    [callback \in AnswerSteps |->
        IF callback = "language_selected"
        THEN keyboard \cup {Lower(TextEnglish), TextENGLISH, TextPunjabi}
        ELSE IF callback = "location_received" THEN {TextJaipur}
        ELSE {TextNo}]

AllTexts ==
    Commands \cup {Slash(NameAdvisory)}
             \cup UNION {Answers[c] : c \in AnswerSteps}
             \cup UNION {LoanAnswers[c] : c \in AnswerSteps}
             \cup UNION {OnboardingAnswers[c] : c \in AnswerSteps}

\* int(text): ok = FALSE stands for the ValueError
IntOf ==
    [t \in AllTexts |->
        IF IsNumberLiteral(t) THEN [ok |-> TRUE, val |-> NumberValue(t)]
        ELSE [ok |-> FALSE, val |-> 0]]

ParseInt(text) == IntOf[text]

\* float(text.replace(',', '')) on texts without a decimal point
FloatOf ==
    [t \in AllTexts |->
        LET plain == RemoveCommas(t)
        IN  IF IsNumberLiteral(plain) THEN [ok |-> TRUE, val |-> NumberValue(plain)]
            ELSE [ok |-> FALSE, val |-> 0]]

ParseFloat(text) == FloatOf[text]

\* the command a text is, as CommandHandler compares it; <<>> for a text
\* that filters.COMMAND rejects
CommandOf ==
    [t \in AllTexts |-> IF IsCommand(t) THEN CommandName(t) ELSE <<>>]

----------------------------------------------------------------------------
(* Conversation states, telegram_bot.py lines 61-70 *)

Idle == "Idle"      \* no entry in ConversationHandler._conversations
END == "END"        \* ConversationHandler.END

LANGUAGE_SELECT == "LANGUAGE_SELECT"
LOCATION_INPUT == "LOCATION_INPUT"

LOAN_EDUCATION == "LOAN_EDUCATION"
LOAN_EMPLOYMENT == "LOAN_EMPLOYMENT"
LOAN_DEPENDENTS == "LOAN_DEPENDENTS"
LOAN_INCOME == "LOAN_INCOME"
LOAN_AMOUNT == "LOAN_AMOUNT"
LOAN_TERM == "LOAN_TERM"
LOAN_CREDIT == "LOAN_CREDIT"
LOAN_RESIDENTIAL == "LOAN_RESIDENTIAL"
LOAN_COMMERCIAL == "LOAN_COMMERCIAL"
LOAN_LUXURY == "LOAN_LUXURY"
LOAN_BANK == "LOAN_BANK"

FRAUD_SCHEME_NAME == "FRAUD_SCHEME_NAME"
FRAUD_DESCRIPTION == "FRAUD_DESCRIPTION"
FRAUD_SOURCE == "FRAUD_SOURCE"

LoanStates ==
    <<LOAN_EDUCATION, LOAN_EMPLOYMENT, LOAN_DEPENDENTS, LOAN_INCOME, LOAN_AMOUNT,
      LOAN_TERM, LOAN_CREDIT, LOAN_RESIDENTIAL, LOAN_COMMERCIAL, LOAN_LUXURY,
      LOAN_BANK>>

FraudStates == <<FRAUD_SCHEME_NAME, FRAUD_DESCRIPTION, FRAUD_SOURCE>>

LanguageStates == <<LANGUAGE_SELECT, LOCATION_INPUT>>

----------------------------------------------------------------------------
(* The loan decision service, src/services/loan_service.py *)

NoFeatures == EmptyDict

NoEmi == [zero |-> TRUE, principal |-> 0, rate |-> 0, n |-> 0]

\* the amortization formula of line 131, kept by its operands
Amortized(principal, rate, n) ==
    [zero |-> FALSE, principal |-> principal, rate |-> rate, n |-> n]

NoDecision ==
    [message |-> "none", eligible |-> FALSE, recommended_amount |-> 0,
     emi |-> NoEmi, interest_rate |-> 0, tenure_months |-> 0]

\* dict.get(key, default)
Get(d, k, default) == IF Has(d, k) THEN d[k] ELSE default

\* the larger of the two, where the smaller is due
Larger(a, b) == IF a <= b THEN b ELSE a

Min(a, b) == IF a <= b THEN a ELSE b

Max(a, b) == IF a >= b THEN a ELSE b

\* Python's round(m / 12): to the nearest integer, a tie to the even one
RoundDiv12(m) ==
    LET q == m \div 12
        r == m % 12
    IN  IF r < 6 THEN q
        ELSE IF r > 6 THEN q + 1
        ELSE IF q % 2 = 0 THEN q ELSE q + 1

WordGraduate == <<"g", "r", "a", "d", "u", "a", "t", "e">>

WordYes == <<"y", "e", "s">>

\* loan_term as the classifier gets it, lines 80-82
model_loan_term(loan_term_input) ==
    LET loan_term_years ==
            IF loan_term_input > 20 THEN RoundDiv12(loan_term_input)
            ELSE loan_term_input
    IN  Max(2, Min(20, loan_term_years))

\* _prepare_features taking only the exact word for class 1 and any other
\* text holding it for a class of its own
_prepare_features_third_class(data) ==
    LET education_raw == Lower(Get(data, "education", TextGraduate))
        self_employed_raw == Lower(Get(data, "self_employed", TextNo))
    IN  [no_of_dependents |-> Get(data, "no_of_dependents", 0),
         education |-> IF education_raw = WordGraduate THEN 1
                       ELSE IF Contains(education_raw, WordGraduate) THEN 2
                       ELSE 0,
         self_employed |-> IF Contains(self_employed_raw, WordYes) THEN 1 ELSE 0,
         income_annum |-> Get(data, "income_annum", 0),
         loan_amount |-> Get(data, "loan_amount", 0),
         loan_term |-> model_loan_term(Get(data, "loan_term", 12)),
         cibil_score |-> Get(data, "cibil_score", 650),
         residential_assets_value |-> Get(data, "residential_assets_value", 0),
         commercial_assets_value |-> Get(data, "commercial_assets_value", 0),
         luxury_assets_value |-> Get(data, "luxury_assets_value", 0),
         bank_asset_value |-> Get(data, "bank_asset_value", 0)]

_prepare_features(data) ==
    LET education_raw == Lower(Get(data, "education", TextGraduate))
        self_employed_raw == Lower(Get(data, "self_employed", TextNo))
    IN  [no_of_dependents |-> Get(data, "no_of_dependents", 0),
         education |-> IF Contains(education_raw, WordGraduate) THEN 1 ELSE 0,
         self_employed |-> IF Contains(self_employed_raw, WordYes) THEN 1 ELSE 0,
         income_annum |-> Get(data, "income_annum", 0),
         loan_amount |-> Get(data, "loan_amount", 0),
         loan_term |-> model_loan_term(Get(data, "loan_term", 12)),
         cibil_score |-> Get(data, "cibil_score", 650),
         residential_assets_value |-> Get(data, "residential_assets_value", 0),
         commercial_assets_value |-> Get(data, "commercial_assets_value", 0),
         luxury_assets_value |-> Get(data, "luxury_assets_value", 0),
         bank_asset_value |-> Get(data, "bank_asset_value", 0)]

\* tenure for the EMI, lines 123-126
emi_tenure_months(loan_term) ==
    IF loan_term <= 20 THEN loan_term * 12 ELSE loan_term

\* _calculate_loan_details with the tiers starting above 750 and 700
_calculate_loan_details_strict_tiers(data, eligible) ==
    LET requested == Get(data, "loan_amount", 0)
        income_annum == Get(data, "income_annum", 0)
        cibil == Get(data, "cibil_score", 650)
        interest_rate ==
            IF cibil > 750 THEN 85 ELSE IF cibil > 700 THEN 100 ELSE 120
        max_eligible == income_annum * 5
        recommended == IF eligible THEN Min(requested, max_eligible) ELSE 0
        tenure_months == emi_tenure_months(Get(data, "loan_term", 12))
        emi ==
            IF recommended > 0 /\ tenure_months > 0
            THEN Amortized(recommended, interest_rate, tenure_months)
            ELSE NoEmi
    IN  [recommended_amount |-> recommended, emi |-> emi,
         interest_rate |-> interest_rate, tenure_months |-> tenure_months]

_calculate_loan_details(data, eligible) ==
    LET requested == Get(data, "loan_amount", 0)
        income_annum == Get(data, "income_annum", 0)
        cibil == Get(data, "cibil_score", 650)
        interest_rate ==
            IF cibil >= 750 THEN 85 ELSE IF cibil >= 700 THEN 100 ELSE 120
        max_eligible == income_annum * 5
        recommended == IF eligible THEN Min(requested, max_eligible) ELSE 0
        tenure_months == emi_tenure_months(Get(data, "loan_term", 12))
        emi ==
            IF recommended > 0 /\ tenure_months > 0
            THEN Amortized(recommended, interest_rate, tenure_months)
            ELSE NoEmi
    IN  [recommended_amount |-> recommended, emi |-> emi,
         interest_rate |-> interest_rate, tenure_months |-> tenure_months]

\* the approval template whatever the label
_generate_messages_approval_only(eligible) == "approved"

_generate_messages(eligible) == IF eligible THEN "approved" ELSE "rejected"

\* an error answered with the rejection template
_error_response_as_rejection ==
    [message |-> "rejected", eligible |-> FALSE, recommended_amount |-> 0,
     emi |-> NoEmi, interest_rate |-> 0, tenure_months |-> 0]

_error_response ==
    [message |-> "error", eligible |-> FALSE, recommended_amount |-> 0,
     emi |-> NoEmi, interest_rate |-> 0, tenure_months |-> 0]

\* What the classifier does with one row: a label, or an exception.
ClassifierOutcomes ==
    {[raises |-> FALSE, label |-> 1], [raises |-> FALSE, label |-> 0],
     [raises |-> TRUE, label |-> 0]}

\* predict_eligibility: the result, the row handed to the classifier, and
\* whether it took an error path (lines 30-31, 65-67)
predict_eligibility(data, service, clf) ==
    IF service = "no_model"
    THEN [result |-> _error_response, features |-> NoFeatures,
          failed |-> TRUE]
    ELSE LET features == _prepare_features(data)
             eligible == (clf.label = 1)
             loan_details == _calculate_loan_details(data, eligible)
         IN  IF clf.raises
             THEN [result |-> _error_response, features |-> features,
                   failed |-> TRUE]
             ELSE [result |->
                       [message |-> _generate_messages(eligible),
                        eligible |-> eligible,
                        recommended_amount |-> loan_details.recommended_amount,
                        emi |-> loan_details.emi,
                        interest_rate |-> loan_details.interest_rate,
                        tenure_months |-> loan_details.tenure_months],
                   features |-> features, failed |-> FALSE]

\* The columns of feature_dict, in the order of lines 86-98
FeatureNames ==
    <<"no_of_dependents", "education", "self_employed", "income_annum",
      "loan_amount", "loan_term", "cibil_score", "residential_assets_value",
      "commercial_assets_value", "luxury_assets_value", "bank_asset_value">>

\* lines 100-105: the row handed to the classifier, as <<column, value>>
\* pairs in the order of the classifier's feature_names_in_ (a classifier
\* without that attribute, <<>> here, gets the order of feature_dict)
\* the declared names put over the values in feature_dict's own order
reorder_columns_by_position(feature_dict, feature_names_in_) ==
    LET expected_cols ==
            IF feature_names_in_ = <<>> THEN FeatureNames
            ELSE SelectSeq(feature_names_in_,
                           LAMBDA col : col \in DOMAIN feature_dict)
    IN  [i \in 1..Len(expected_cols) |->
            <<expected_cols[i], feature_dict[FeatureNames[i]]>>]

reorder_columns(feature_dict, feature_names_in_) ==
    LET expected_cols ==
            IF feature_names_in_ = <<>> THEN FeatureNames
            ELSE SelectSeq(feature_names_in_,
                           LAMBDA col : col \in DOMAIN feature_dict)
    IN  [i \in 1..Len(expected_cols) |->
            <<expected_cols[i], feature_dict[expected_cols[i]]>>]

----------------------------------------------------------------------------
(* The stateless endpoint POST /loan/check-eligibility,                    *)
(* src/api/routes/loan.py lines 87-125.  The request is a LoanRequest      *)
(* (lines 18-53): loan_term in months, > 0.                                *)

NoResponse == [status |-> 0, body |-> NoDecision, columns |-> <<>>]

\* check_loan_eligibility: LoanResponse(**result) is the 200 answer; the
\* service catches its own exceptions, so the 500 of line 125 is not
\* reached by a classifier failure
check_loan_eligibility(request, feature_names_in_, service, clf) ==
    LET p == predict_eligibility(request, service, clf)
    IN  [status |-> 200, body |-> p.result,
         columns |-> IF DOMAIN p.features = {} THEN <<>>
                     ELSE reorder_columns(p.features, feature_names_in_)]

----------------------------------------------------------------------------
(* What a handler call does: the state it returns (or the exception that   *)
(* leaves it), context.user_data afterwards, the replies it sent, and what *)
(* it asked of the decision service, and the files it created and left on  *)
(* disk.                                                                   *)

Returned(ret, ud, replies) ==
    [ret |-> ret, exc |-> "none", ud |-> ud, replies |-> replies,
     calls |-> 0, decision |-> NoDecision, features |-> NoFeatures,
     failed |-> FALSE, files |-> {}]

Raised(exc, ud, replies) ==
    [ret |-> "none", exc |-> exc, ud |-> ud, replies |-> replies,
     calls |-> 0, decision |-> NoDecision, features |-> NoFeatures,
     failed |-> FALSE, files |-> {}]

Prompt(state) == <<"prompt", state>>

ValidationError(state) == <<"validation_error", state>>

\* context.user_data['loan_data'][field] = value
Commit(ud, store, field, value) == Put(ud, store, Put(ud[store], field, value))

----------------------------------------------------------------------------
(* Loan handlers, telegram_bot.py lines 478-775 *)

loan_command(ud, text) ==
    Returned(LOAN_EDUCATION, Put(ud, "loan_data", EmptyDict),
             <<Prompt(LOAN_EDUCATION)>>)

\* loan_education going on to the dependents question
loan_education_skips_employment(ud, text) ==
    IF ~Has(ud, "loan_data") THEN Raised("KeyError", ud, <<>>)
    ELSE Returned(LOAN_DEPENDENTS, Commit(ud, "loan_data", "education", text),
                  <<Prompt(LOAN_DEPENDENTS)>>)

loan_education(ud, text) ==
    IF ~Has(ud, "loan_data") THEN Raised("KeyError", ud, <<>>)
    ELSE Returned(LOAN_EMPLOYMENT, Commit(ud, "loan_data", "education", text),
                  <<Prompt(LOAN_EMPLOYMENT)>>)

loan_employment(ud, text) ==
    IF ~Has(ud, "loan_data") THEN Raised("KeyError", ud, <<>>)
    ELSE Returned(LOAN_DEPENDENTS,
                  Commit(ud, "loan_data", "self_employed", text),
                  <<Prompt(LOAN_DEPENDENTS)>>)

loan_dependents(ud, text) ==
    LET dependents == ParseInt(text)
    IN  IF dependents.ok /\ Has(ud, "loan_data")
        THEN Returned(LOAN_INCOME,
                      Commit(ud, "loan_data", "no_of_dependents", dependents.val),
                      <<Prompt(LOAN_INCOME)>>)
        ELSE Returned(LOAN_DEPENDENTS, ud, <<ValidationError(LOAN_DEPENDENTS)>>)

loan_income(ud, text) ==
    LET income == ParseFloat(text)
    IN  IF income.ok /\ Has(ud, "loan_data")
        THEN Returned(LOAN_AMOUNT,
                      Commit(ud, "loan_data", "income_annum", income.val),
                      <<Prompt(LOAN_AMOUNT)>>)
        ELSE Returned(LOAN_INCOME, ud, <<ValidationError(LOAN_INCOME)>>)

loan_amount(ud, text) ==
    LET amount == ParseFloat(text)
    IN  IF amount.ok /\ Has(ud, "loan_data")
        THEN Returned(LOAN_TERM,
                      Commit(ud, "loan_data", "loan_amount", amount.val),
                      <<Prompt(LOAN_TERM)>>)
        ELSE Returned(LOAN_AMOUNT, ud, <<ValidationError(LOAN_AMOUNT)>>)

\* loan_term committing before its range check
loan_term_commit_first(ud, text) ==
    LET term == ParseInt(text)
    IN  IF term.ok /\ Has(ud, "loan_data")
        THEN IF term.val < 1 \/ term.val > 30
             THEN Returned(LOAN_TERM,
                           Commit(ud, "loan_data", "loan_term", term.val * 12),
                           <<ValidationError(LOAN_TERM)>>)
             ELSE Returned(LOAN_CREDIT,
                           Commit(ud, "loan_data", "loan_term", term.val * 12),
                           <<Prompt(LOAN_CREDIT)>>)
        ELSE Returned(LOAN_TERM, ud, <<ValidationError(LOAN_TERM)>>)

loan_term(ud, text) ==
    LET term == ParseInt(text)
    IN  IF term.ok /\ ~(term.val < 1 \/ term.val > 30) /\ Has(ud, "loan_data")
        THEN Returned(LOAN_CREDIT,
                      Commit(ud, "loan_data", "loan_term", term.val * 12),
                      <<Prompt(LOAN_CREDIT)>>)
        ELSE Returned(LOAN_TERM, ud, <<ValidationError(LOAN_TERM)>>)

loan_credit(ud, text) ==
    LET credit == ParseInt(text)
    IN  IF credit.ok /\ ~(credit.val < 300 \/ credit.val > 900)
           /\ Has(ud, "loan_data")
        THEN Returned(LOAN_RESIDENTIAL,
                      Commit(ud, "loan_data", "cibil_score", credit.val),
                      <<Prompt(LOAN_RESIDENTIAL)>>)
        ELSE Returned(LOAN_CREDIT, ud, <<ValidationError(LOAN_CREDIT)>>)

loan_residential(ud, text) ==
    LET res_assets == ParseFloat(text)
    IN  IF res_assets.ok /\ Has(ud, "loan_data")
        THEN Returned(LOAN_COMMERCIAL,
                      Commit(ud, "loan_data", "residential_assets_value",
                             res_assets.val),
                      <<Prompt(LOAN_COMMERCIAL)>>)
        ELSE Returned(LOAN_RESIDENTIAL, ud, <<ValidationError(LOAN_RESIDENTIAL)>>)

loan_commercial(ud, text) ==
    LET com_assets == ParseFloat(text)
    IN  IF com_assets.ok /\ Has(ud, "loan_data")
        THEN Returned(LOAN_LUXURY,
                      Commit(ud, "loan_data", "commercial_assets_value",
                             com_assets.val),
                      <<Prompt(LOAN_LUXURY)>>)
        ELSE Returned(LOAN_COMMERCIAL, ud, <<ValidationError(LOAN_COMMERCIAL)>>)

loan_luxury(ud, text) ==
    LET lux_assets == ParseFloat(text)
    IN  IF lux_assets.ok /\ Has(ud, "loan_data")
        THEN Returned(LOAN_BANK,
                      Commit(ud, "loan_data", "luxury_assets_value",
                             lux_assets.val),
                      <<Prompt(LOAN_BANK)>>)
        ELSE Returned(LOAN_LUXURY, ud, <<ValidationError(LOAN_LUXURY)>>)

\* What the calls after the decision do in loan_bank: the translation of the
\* message (made for a language other than hi and en), the delivery of the
\* message (line 760) and the delivery of the error notice (line 773).
DeliveryOutcomes ==
    [translate : {"ok", "raise"}, result : {"ok", "raise"},
     notice : {"ok", "raise"}]

Delivered == [translate |-> "ok", result |-> "ok", notice |-> "ok"]

\* loan_bank leaving loan_data in the session after the decision
loan_bank_keeps_store(ud, text, service, clf, io) ==
    LET bank_assets == ParseFloat(text)
    IN  IF ~(bank_assets.ok /\ Has(ud, "loan_data"))
        THEN Returned(LOAN_BANK, ud, <<ValidationError(LOAN_BANK)>>)
        ELSE
        LET ud1 == Commit(ud, "loan_data", "bank_asset_value", bank_assets.val)
            p == predict_eligibility(ud1["loan_data"], service, clf)
        IN  [ret |-> END, exc |-> "none", ud |-> ud1,
             replies |-> <<<<"processing", "loan">>,
                           <<"result", p.result.message>>>>,
             calls |-> 1, decision |-> p.result, features |-> p.features,
             failed |-> p.failed, files |-> {}]

\* The final step.  service is the module-level loan_service with its model
\* loaded or not; clf is what the classifier does with the row
\* (predict_eligibility catches its own exceptions); io is what the calls
\* after the decision do.  A failing translation is passed over (lines
\* 755-758).  A failing delivery of the message raises inside the try of line
\* 748: the except of line 764 sends the error notice instead, and when that
\* delivery fails too the exception leaves the handler.
loan_bank(ud, text, service, clf, io) ==
    LET bank_assets == ParseFloat(text)
    IN  IF ~(bank_assets.ok /\ Has(ud, "loan_data"))
        THEN Returned(LOAN_BANK, ud, <<ValidationError(LOAN_BANK)>>)
        ELSE
        LET ud1 == Commit(ud, "loan_data", "bank_asset_value", bank_assets.val)
            p == predict_eligibility(ud1["loan_data"], service, clf)
            outcome == [ret |-> END, exc |-> "none", ud |-> Pop(ud1, "loan_data"),
                        replies |-> <<<<"processing", "loan">>,
                                      <<"result", p.result.message>>>>,
                        calls |-> 1, decision |-> p.result,
                        features |-> p.features, failed |-> p.failed,
                        files |-> {}]
        IN  IF io.result = "ok" THEN outcome
            ELSE IF io.notice = "ok"
            THEN [outcome EXCEPT !.replies = <<<<"processing", "loan">>,
                                               <<"error", "eligibility">>>>]
            ELSE [outcome EXCEPT !.ret = "none", !.exc = "NetworkError",
                                 !.ud = ud1,
                                 !.replies = <<<<"processing", "loan">>>>]

----------------------------------------------------------------------------
(* Fraud handlers, telegram_bot.py lines 780-892.  fraud_service is not    *)
(* among the sources: detect_fraud either returns a result with its        *)
(* warning messages or raises.                                             *)

FraudOutcomes == {"warning", "raise"}

detect_fraud(fraud_data, outcome) == outcome

fraud_command(ud, text) ==
    Returned(FRAUD_SCHEME_NAME, Put(ud, "fraud_data", EmptyDict),
             <<Prompt(FRAUD_SCHEME_NAME)>>)

fraud_scheme_name(ud, text) ==
    IF ~Has(ud, "fraud_data") THEN Raised("KeyError", ud, <<>>)
    ELSE Returned(FRAUD_DESCRIPTION,
                  Commit(ud, "fraud_data", "scheme_name", text),
                  <<Prompt(FRAUD_DESCRIPTION)>>)

fraud_description(ud, text) ==
    IF ~Has(ud, "fraud_data") THEN Raised("KeyError", ud, <<>>)
    ELSE Returned(FRAUD_SOURCE,
                  Commit(ud, "fraud_data", "description", text),
                  <<Prompt(FRAUD_SOURCE)>>)

fraud_source(ud, text, outcome) ==
    IF ~Has(ud, "fraud_data") THEN Raised("KeyError", ud, <<>>)
    ELSE
    LET ud1 == Commit(Commit(ud, "fraud_data", "source", text),
                      "fraud_data", "contact", <<>>)
        result == detect_fraud(ud1["fraud_data"], outcome)
    IN  [ret |-> END, exc |-> "none", ud |-> Pop(ud1, "fraud_data"),
         replies |-> <<<<"processing", "fraud">>,
                       IF result = "raise" THEN <<"error", "fraud">>
                       ELSE <<"result", "fraud_warning">>>>,
         calls |-> 1, decision |-> NoDecision, features |-> NoFeatures,
         failed |-> result = "raise", files |-> {}]

cancel(ud, text) == Returned(END, EmptyDict, <<<<"cancelled", "">>>>)

\* handle_text_query, lines 989-1016: an answer or an error message
handle_text_query(ud, text) == Returned("none", ud, <<<<"answer", "rag">>>>)

\* start, lines 141-198
start(ud, text) == Returned("none", ud, <<<<"welcome", "">>>>)

----------------------------------------------------------------------------
(* Language handlers, telegram_bot.py lines 201-321, and the preference    *)
(* row they write                                                          *)

NoRow ==
    [exists |-> FALSE, preferred_language |-> "", location |-> <<>>,
     advisory_enabled |-> FALSE]

\* LANGUAGE_MAP, lines 73-81
LANGUAGE_MAP ==
    [selected \in {TextEnglish, TextHindi, NativeHindi,
                   Both(NativePunjabi, TextPunjabi), TextPunjabi,
                   Both(NativeMalayalam, TextMalayalam),
                   Both(NativeTamil, TextTamil)} |->
        IF selected = TextEnglish THEN "en"
        ELSE IF selected \in {TextHindi, NativeHindi} THEN "hi"
        ELSE IF selected \in {Both(NativePunjabi, TextPunjabi), TextPunjabi}
        THEN "pa"
        ELSE IF selected = Both(NativeMalayalam, TextMalayalam) THEN "ml"
        ELSE "ta"]

\* LANGUAGE_MAP.get(selected, 'hi')
LanguageCode(selected) ==
    IF selected \in DOMAIN LANGUAGE_MAP THEN LANGUAGE_MAP[selected] ELSE "hi"

language_command(ud, text) ==
    Returned(LANGUAGE_SELECT, ud, <<Prompt(LANGUAGE_SELECT)>>)

language_selected(ud, text) ==
    Returned(LOCATION_INPUT, Put(ud, "selected_language", LanguageCode(text)),
             <<Prompt(LOCATION_INPUT)>>)

\* the row after language_selected's commit, lines 230-243
language_selected_row(pref, text) ==
    IF pref.exists THEN [pref EXCEPT !.preferred_language = LanguageCode(text)]
    ELSE [exists |-> TRUE, preferred_language |-> LanguageCode(text),
          location |-> TextDelhi, advisory_enabled |-> TRUE]

location_received(ud, text) == Returned(END, ud, <<<<"setup_complete", "">>>>)

\* the row after location_received's commit, lines 275-282
location_received_row(pref, text) ==
    IF pref.exists
    THEN [pref EXCEPT !.location = text, !.advisory_enabled = TRUE]
    ELSE pref

\* send_daily_advisories made no delivery call for the user
NoDelivery == [outcome |-> "none", attempts |-> 0, logged |-> "none"]

----------------------------------------------------------------------------
(* Answers with a voice message, telegram_bot.py lines 326-395 and         *)
(* 913-986.  io tells what the external calls of the handler do: whether   *)
(* the answer text is produced (the advisory, or OCR and the explanation), *)
(* whether speech synthesis returns an audio file, and whether the audio   *)
(* message is delivered.                                                   *)

VoiceOutcomes ==
    [text : {"ok", "empty", "raise"}, speech : {"ok", "raise"},
     audio : {"ok", "raise"}]

\* the try of lines 367-380 and 957-966: synthesis, then reply_audio; an
\* exception of either is logged and nothing else
voice(io, detail) ==
    IF io.speech = "ok" /\ io.audio = "ok" THEN <<<<"audio", detail>>>> ELSE <<>>

\* The files the try of lines 367-380 and 957-966 leaves behind:
\* text_to_speech writes an mp3 file (gtts_service.py lines 33-38), and
\* os.remove comes after reply_audio inside the same try
voice_files(io) ==
    IF io.speech = "ok" /\ io.audio = "raise" THEN {"audio"} ELSE {}

\* advisory_command with the try around the audio removed: the exception
\* reaches the except of line 382
advisory_command_unguarded_audio(ud, text, pref, io) ==
    IF ~pref.exists
    THEN Returned("none", ud, <<<<"notice", "set_language_first">>>>)
    ELSE IF io.text = "raise"
    THEN Returned("none", ud,
                  <<<<"processing", "advisory">>, <<"error", "advisory">>>>)
    ELSE Returned("none", ud,
                  <<<<"processing", "advisory">>, <<"answer", "advisory">>>>
                  \o (IF io.speech = "ok" /\ io.audio = "ok"
                      THEN <<<<"audio", "advisory">>>>
                      ELSE <<<<"error", "advisory">>>>))

\* advisory_command, lines 326-395 (generate_daily_advisory returns a text
\* or raises)
advisory_command(ud, text, pref, io) ==
    IF ~pref.exists
    THEN Returned("none", ud, <<<<"notice", "set_language_first">>>>)
    ELSE IF io.text = "raise"
    THEN Returned("none", ud,
                  <<<<"processing", "advisory">>, <<"error", "advisory">>>>)
    ELSE [Returned("none", ud,
                   <<<<"processing", "advisory">>, <<"answer", "advisory">>>>
                   \o voice(io, "advisory"))
            EXCEPT !.files = voice_files(io)]

\* handle_document, lines 913-986; the finally of lines 981-986 removes the
\* temporary download on every path
handle_document(ud, io) ==
    IF io.text = "raise"
    THEN Returned("none", ud, <<<<"error", "document">>>>)
    ELSE IF io.text = "empty"
    THEN Returned("none", ud, <<<<"error", "no_text">>>>)
    ELSE [Returned("none", ud,
                   <<<<"answer", "document">>>> \o voice(io, "document"))
            EXCEPT !.files = voice_files(io)]

----------------------------------------------------------------------------
(* The daily broadcast, scheduler/daily_advisory.py lines 28-89, and the   *)
(* delivery call it makes, services/telegram_service.py lines 52-86        *)

\* what the POST of send_audio does: 200, another status, or an exception
SendOutcomes == {"ok", "http_error", "timeout", "network_error"}

TransientFailures == {"timeout", "network_error"}

\* TelegramService.send_audio: one POST; a failure is logged, the call returns
\* None either way
send_audio(chat_id, outcome) ==
    [outcome |-> outcome, attempts |-> 1, raised |-> FALSE]

\* One pass of the loop of send_daily_advisories for the user of row pref:
\* prepare is whether the advisory, its translation and its audio file are
\* produced ("raise": one of them raises, line 79)
send_daily_advisory(u, pref, prepare, outcome) ==
    IF ~(pref.exists /\ pref.advisory_enabled)
    THEN NoDelivery
    ELSE IF prepare = "raise"
    THEN [outcome |-> "not_sent", attempts |-> 0, logged |-> "failed"]
    ELSE LET sent == send_audio(u, outcome)
         IN  [outcome |-> sent.outcome, attempts |-> sent.attempts,
              logged |-> IF sent.raised THEN "failed" ELSE "sent"]

----------------------------------------------------------------------------
(* Dispatch: Application.process_update offers the update to the handlers  *)
(* of main in registration order (lines 1093-1106) and runs the first that *)
(* takes it.  A ConversationHandler takes an update through an entry point *)
(* only when the user has no state in it, and otherwise through the        *)
(* current state's handlers and then its fallbacks.                        *)

Command(name, callback) ==
    [kind |-> "command", command |-> name, callback |-> callback, conv |-> "app"]

Conversation(name) ==
    [kind |-> "conversation", command |-> <<>>, callback |-> "none", conv |-> name]

TextHandler(callback) ==
    [kind |-> "text", command |-> <<>>, callback |-> callback, conv |-> "app"]

Convs == {"lang_conv", "loan_conv", "fraud_conv"}

\* lines 1053-1090
lang_conv ==
    [entry_command |-> NameLanguage, entry_callback |-> "language_command",
     states |-> [s \in {LANGUAGE_SELECT, LOCATION_INPUT} |->
                    IF s = LANGUAGE_SELECT THEN "language_selected"
                    ELSE "location_received"],
     fallback_command |-> NameCancel, fallback_callback |-> "cancel"]

LoanCallbacks ==
    <<"loan_education", "loan_employment", "loan_dependents", "loan_income",
      "loan_amount", "loan_term", "loan_credit", "loan_residential",
      "loan_commercial", "loan_luxury", "loan_bank">>

loan_conv ==
    [entry_command |-> NameLoan, entry_callback |-> "loan_command",
     states |-> [s \in {LoanStates[i] : i \in 1..11} |->
                    LoanCallbacks[CHOOSE i \in 1..11 : LoanStates[i] = s]],
     fallback_command |-> NameCancel, fallback_callback |-> "cancel"]

FraudCallbacks == <<"fraud_scheme_name", "fraud_description", "fraud_source">>

fraud_conv ==
    [entry_command |-> NameFraud, entry_callback |-> "fraud_command",
     states |-> [s \in {FraudStates[i] : i \in 1..3} |->
                    FraudCallbacks[CHOOSE i \in 1..3 : FraudStates[i] = s]],
     fallback_command |-> NameCancel, fallback_callback |-> "cancel"]

ConvDef(c) ==
    IF c = "lang_conv" THEN lang_conv
    ELSE IF c = "loan_conv" THEN loan_conv
    ELSE fraud_conv

\* application.add_handler, in the order of lines 1093-1106 (the document and
\* photo handlers of lines 1103-1104 take no text message)
Registration ==
    <<Command(NameStart, "start"),
      Command(NameAdvisory, "advisory_command"),
      Command(NameExplain, "explain_command"),
      Command(NameSchemes, "schemes_command"),
      Command(NameCancel, "cancel"),
      Conversation("lang_conv"),
      Conversation("loan_conv"),
      Conversation("fraud_conv"),
      TextHandler("handle_text_query")>>

\* ConversationHandler.check_update: the callback that takes the text, or "none"
\* (command is the command the text is, <<>> for a plain text)
ConversationCheck(c, state, command) ==
    LET def == ConvDef(c)
    IN  IF state = Idle
        THEN IF command = def.entry_command
             THEN def.entry_callback ELSE "none"
        ELSE IF command = <<>> THEN def.states[state]
        ELSE IF command = def.fallback_command
             THEN def.fallback_callback
        ELSE "none"

HandlerCheck(h, convState, command) ==
    IF h.kind = "command"
    THEN IF command = h.command THEN h.callback ELSE "none"
    ELSE IF h.kind = "text"
    THEN IF command = <<>> THEN h.callback ELSE "none"
    ELSE ConversationCheck(h.conv, convState[h.conv], command)

\* The first registered handler that takes the update: the callback it runs
\* and the ConversationHandler it runs in ("app": none); "none" when no
\* handler takes the update.
\* process_update running the last registered handler that takes the update
DispatchIn_last_match(registration, convState, command) ==
    LET callbacks == [i \in 1..Len(registration) |->
                         HandlerCheck(registration[i], convState, command)]
        takes == {i \in 1..Len(registration) : callbacks[i] # "none"}
    IN  IF takes = {} THEN [callback |-> "none", conv |-> "app"]
        ELSE LET latest == CHOOSE i \in takes : \A j \in takes : i >= j
             IN  [callback |-> callbacks[latest],
                  conv |-> registration[latest].conv]

DispatchIn(registration, convState, command) ==
    LET callbacks == [i \in 1..Len(registration) |->
                         HandlerCheck(registration[i], convState, command)]
        takes == {i \in 1..Len(registration) : callbacks[i] # "none"}
    IN  IF takes = {} THEN [callback |-> "none", conv |-> "app"]
        ELSE LET first == CHOOSE i \in takes : \A j \in takes : i <= j
             IN  [callback |-> callbacks[first],
                  conv |-> registration[first].conv]

Dispatch(convState, text) == DispatchIn(Registration, convState, CommandOf[text])

----------------------------------------------------------------------------
(* History of an undisturbed form run: since the user started form `form`  *)
(* from a session with no active conversation, the user's messages were n  *)
(* answers, the k-th one valid for the form's k-th field; calls and        *)
(* results count the decision service's invocations and the outcome        *)
(* messages (the decision's message, or the error message sent in its      *)
(* place) of those n handlings.                                            *)

NoRun == [form |-> "none", n |-> 0, calls |-> 0, results |-> 0]

FormLength(form) == IF form = "loan" THEN 11 ELSE IF form = "fraud" THEN 3 ELSE 0

\* the k-th field's rule for a raw answer (a well-formed answer to the form)
FieldValid(form, k, text) ==
    LET whole == ParseInt(text)
        amount == ParseFloat(text)
    IN  IF form = "fraud" \/ k \in {1, 2} THEN TRUE
        ELSE IF k = 3 THEN whole.ok /\ whole.val >= 0
        ELSE IF k \in {4, 5} THEN amount.ok /\ amount.val > 0
        ELSE IF k = 6 THEN whole.ok /\ whole.val \in 1..30
        ELSE IF k = 7 THEN whole.ok /\ whole.val \in 300..900
        ELSE amount.ok /\ amount.val >= 0

SessionIdle(u) == \A c \in Convs : conversations[u][c] = Idle

OutcomeMessages(replies) ==
    Cardinality({i \in 1..Len(replies) : replies[i][1] \in {"result", "error"}})

Track(u, text, r) ==
    LET old == run[u]
        command == CommandOf[text]
    IN  IF command # <<>>
        THEN IF SessionIdle(u) /\ command = NameLoan
             THEN [NoRun EXCEPT !.form = "loan"]
             ELSE IF SessionIdle(u) /\ command = NameFraud
             THEN [NoRun EXCEPT !.form = "fraud"]
             ELSE NoRun
        ELSE IF /\ old.form # "none"
                /\ old.n < FormLength(old.form)
                /\ FieldValid(old.form, old.n + 1, text)
        THEN [old EXCEPT !.n = @ + 1, !.calls = @ + r.calls,
                         !.results = @ + OutcomeMessages(r.replies)]
        ELSE NoRun

----------------------------------------------------------------------------
(* Processing one update of user u: the callback d.callback ran (in the    *)
(* ConversationHandler d.conv) with outcome r; row is the user's           *)
(* preference row afterwards.                                              *)

\* The years entered at the tenure step of the form in progress.
TenureEntered(old, text, d, r) ==
    IF d.callback = "loan_term" /\ r.ret = LOAN_CREDIT THEN ParseInt(text).val
    ELSE IF d.callback \in {"loan_command", "cancel"} THEN 0
    ELSE old

\* error_handler, lines 94-116: the reply to an exception that left a handler
ErrorReplies(r) ==
    IF r.exc \in {"none", "NetworkError", "TimedOut"} THEN <<>>
    ELSE <<<<"error", "something_went_wrong">>>>

\* ConversationHandler._update_state: END removes the user's state
NewState(state, r) ==
    IF r.exc # "none" THEN state
    ELSE IF r.ret = END THEN Idle
    ELSE r.ret

\* The handler of user u's update text returns: the update leaves the
\* updates in handling (none is there when the update is handled in one step)
Finished(running, u, text) ==
    LET at == {i \in DOMAIN running :
                  running[i].user = u /\ running[i].text = text}
    IN  IF at = {} THEN running
        ELSE LET first == CHOOSE i \in at : \A j \in at : i <= j
             IN  SubSeq(running, 1, first - 1) \o
                 SubSeq(running, first + 1, Len(running))

\* Process with one context.user_data for all users
Process_shared_user_data(u, text, d, r, row) ==
    /\ conversations' =
          [conversations EXCEPT ![u] =
              IF d.conv \in Convs
              THEN [@ EXCEPT ![d.conv] = NewState(@, r)]
              ELSE @]
    /\ user_data' = [v \in Users |-> r.ud]
    /\ preferences' = [preferences EXCEPT ![u] = row]
    /\ last' = [user |-> u, text |-> text, callback |-> d.callback,
                conv |-> d.conv, ret |-> r.ret, exc |-> r.exc,
                replies |-> r.replies \o ErrorReplies(r), calls |-> r.calls,
                decision |-> r.decision, features |-> r.features,
                failed |-> r.failed, files |-> r.files]
    /\ run' = [run EXCEPT ![u] = Track(u, text, r)]
    /\ tenure_years' = [tenure_years EXCEPT ![u] = TenureEntered(@, text, d, r)]
    /\ inactive' = [inactive EXCEPT ![u] = FALSE]
    /\ handling' = Finished(handling, u, text)
    /\ before_language' =
          IF d.callback = "language_command"
          THEN [before_language EXCEPT ![u] = preferences[u]]
          ELSE before_language
    /\ UNCHANGED <<loan_service, api, update_queue, deliveries, broadcast>>

Process(u, text, d, r, row) ==
    /\ conversations' =
          [conversations EXCEPT ![u] =
              IF d.conv \in Convs
              THEN [@ EXCEPT ![d.conv] = NewState(@, r)]
              ELSE @]
    /\ user_data' = [user_data EXCEPT ![u] = r.ud]
    /\ preferences' = [preferences EXCEPT ![u] = row]
    /\ last' = [user |-> u, text |-> text, callback |-> d.callback,
                conv |-> d.conv, ret |-> r.ret, exc |-> r.exc,
                replies |-> r.replies \o ErrorReplies(r), calls |-> r.calls,
                decision |-> r.decision, features |-> r.features,
                failed |-> r.failed, files |-> r.files]
    /\ run' = [run EXCEPT ![u] = Track(u, text, r)]
    /\ tenure_years' = [tenure_years EXCEPT ![u] = TenureEntered(@, text, d, r)]
    /\ inactive' = [inactive EXCEPT ![u] = FALSE]
    /\ handling' = Finished(handling, u, text)
    /\ before_language' =
          IF d.callback = "language_command"
          THEN [before_language EXCEPT ![u] = preferences[u]]
          ELSE before_language
    /\ UNCHANGED <<loan_service, api, update_queue, deliveries, broadcast>>

\* The command each command callback is registered for (lines 1054, 1064,
\* 1083, 1093, 1097)
CallbackCommand ==
    [start |-> NameStart, cancel |-> NameCancel,
     language_command |-> NameLanguage, loan_command |-> NameLoan,
     fraud_command |-> NameFraud]

\* The conversation and state each step callback is registered in (lines
\* 1055-1058, 1065-1077, 1084-1088)
CallbackState ==
    [language_selected |-> <<"lang_conv", LANGUAGE_SELECT>>,
     location_received |-> <<"lang_conv", LOCATION_INPUT>>,
     loan_education |-> <<"loan_conv", LOAN_EDUCATION>>,
     loan_employment |-> <<"loan_conv", LOAN_EMPLOYMENT>>,
     loan_dependents |-> <<"loan_conv", LOAN_DEPENDENTS>>,
     loan_income |-> <<"loan_conv", LOAN_INCOME>>,
     loan_amount |-> <<"loan_conv", LOAN_AMOUNT>>,
     loan_term |-> <<"loan_conv", LOAN_TERM>>,
     loan_credit |-> <<"loan_conv", LOAN_CREDIT>>,
     loan_residential |-> <<"loan_conv", LOAN_RESIDENTIAL>>,
     loan_commercial |-> <<"loan_conv", LOAN_COMMERCIAL>>,
     loan_luxury |-> <<"loan_conv", LOAN_LUXURY>>,
     loan_bank |-> <<"loan_conv", LOAN_BANK>>,
     fraud_scheme_name |-> <<"fraud_conv", FRAUD_SCHEME_NAME>>,
     fraud_description |-> <<"fraud_conv", FRAUD_DESCRIPTION>>,
     fraud_source |-> <<"fraud_conv", FRAUD_SOURCE>>]

\* The filter of the handler a callback is registered with: its command for
\* a command callback, a plain text in its state for a step callback.
Filter(u, text, callback) ==
    LET command == CommandOf[text]
    IN  IF callback \in DOMAIN CallbackCommand
        THEN command = CallbackCommand[callback]
        ELSE IF callback \in DOMAIN CallbackState
        THEN /\ command = <<>>
             /\ conversations[u][CallbackState[callback][1]]
                   = CallbackState[callback][2]
        ELSE IF callback = "handle_text_query" THEN command = <<>>
        ELSE TRUE

\* The callback that takes text from user u runs, with outcome r: its
\* handler's filter passes and it is the first registered handler to take
\* the update.
Handle(u, text, callback, r) ==
    /\ Filter(u, text, callback)
    /\ LET d == Dispatch(conversations[u], text)
       IN  /\ d.callback = callback
           /\ Process(u, text, d, r, preferences[u])

\* One action per callback of main.  Texts[u] is what user u may send.

Start(Texts) ==
    \E u \in Users : \E text \in Texts[u] :
        Handle(u, text, "start", start(user_data[u], text))

Cancel(Texts) ==
    \E u \in Users : \E text \in Texts[u] :
        Handle(u, text, "cancel", cancel(user_data[u], text))

LanguageCommand(Texts) ==
    \E u \in Users : \E text \in Texts[u] :
        Handle(u, text, "language_command",
               language_command(user_data[u], text))

LanguageSelected(Texts) ==
    \E u \in Users : \E text \in Texts[u] :
        LET d == Dispatch(conversations[u], text)
        IN  /\ d.callback = "language_selected"
            /\ Process(u, text, d, language_selected(user_data[u], text),
                       language_selected_row(preferences[u], text))

LocationReceived(Texts) ==
    \E u \in Users : \E text \in Texts[u] :
        LET d == Dispatch(conversations[u], text)
        IN  /\ d.callback = "location_received"
            /\ Process(u, text, d, location_received(user_data[u], text),
                       location_received_row(preferences[u], text))

LoanCommand(Texts) ==
    \E u \in Users : \E text \in Texts[u] :
        Handle(u, text, "loan_command", loan_command(user_data[u], text))

LoanEducation(Texts) ==
    \E u \in Users : \E text \in Texts[u] :
        Handle(u, text, "loan_education", loan_education(user_data[u], text))

LoanEmployment(Texts) ==
    \E u \in Users : \E text \in Texts[u] :
        Handle(u, text, "loan_employment", loan_employment(user_data[u], text))

LoanDependents(Texts) ==
    \E u \in Users : \E text \in Texts[u] :
        Handle(u, text, "loan_dependents", loan_dependents(user_data[u], text))

LoanIncome(Texts) ==
    \E u \in Users : \E text \in Texts[u] :
        Handle(u, text, "loan_income", loan_income(user_data[u], text))

LoanAmount(Texts) ==
    \E u \in Users : \E text \in Texts[u] :
        Handle(u, text, "loan_amount", loan_amount(user_data[u], text))

LoanTerm(Texts) ==
    \E u \in Users : \E text \in Texts[u] :
        Handle(u, text, "loan_term", loan_term(user_data[u], text))

LoanCredit(Texts) ==
    \E u \in Users : \E text \in Texts[u] :
        Handle(u, text, "loan_credit", loan_credit(user_data[u], text))

LoanResidential(Texts) ==
    \E u \in Users : \E text \in Texts[u] :
        Handle(u, text, "loan_residential",
               loan_residential(user_data[u], text))

LoanCommercial(Texts) ==
    \E u \in Users : \E text \in Texts[u] :
        Handle(u, text, "loan_commercial", loan_commercial(user_data[u], text))

LoanLuxury(Texts) ==
    \E u \in Users : \E text \in Texts[u] :
        Handle(u, text, "loan_luxury", loan_luxury(user_data[u], text))

LoanBank(Texts) ==
    \E u \in Users : \E text \in Texts[u] : \E clf \in ClassifierOutcomes :
        Handle(u, text, "loan_bank",
               loan_bank(user_data[u], text, loan_service, clf, Delivered))

\* get_user_language, lines 121-136, on the user's preference row
get_user_language(pref) ==
    IF pref.exists /\ pref.preferred_language # ""
    THEN pref.preferred_language ELSE "hi"

\* loan_bank with a call after the decision failing
LoanBankUndelivered(Texts) ==
    \E u \in Users : \E text \in Texts[u] : \E clf \in ClassifierOutcomes :
    \E io \in DeliveryOutcomes \ {Delivered} :
        /\ io.translate = "raise" =>
               get_user_language(preferences[u]) \notin {"hi", "en"}
        /\ Handle(u, text, "loan_bank",
                  loan_bank(user_data[u], text, loan_service, clf, io))

FraudCommand(Texts) ==
    \E u \in Users : \E text \in Texts[u] :
        Handle(u, text, "fraud_command", fraud_command(user_data[u], text))

FraudSchemeName(Texts) ==
    \E u \in Users : \E text \in Texts[u] :
        Handle(u, text, "fraud_scheme_name",
               fraud_scheme_name(user_data[u], text))

FraudDescription(Texts) ==
    \E u \in Users : \E text \in Texts[u] :
        Handle(u, text, "fraud_description",
               fraud_description(user_data[u], text))

FraudSource(Texts) ==
    \E u \in Users : \E text \in Texts[u] : \E outcome \in FraudOutcomes :
        Handle(u, text, "fraud_source",
               fraud_source(user_data[u], text, outcome))

HandleTextQuery(Texts) ==
    \E u \in Users : \E text \in Texts[u] :
        Handle(u, text, "handle_text_query",
               handle_text_query(user_data[u], text))

\* No registered handler takes the update: process_update drops it.
Dropped(Texts) ==
    \E u \in Users : \E text \in Texts[u] :
        Handle(u, text, "none", Returned("none", user_data[u], <<>>))

\* Time passes beyond the idle threshold for a user in a conversation.  The
\* ConversationHandlers of lines 1053-1090 are built without a
\* conversation_timeout and no handler keeps the time of the last message:
\* nothing in the program's state changes.
TimePasses ==
    \E u \in Users :
        /\ ~inactive[u]
        /\ ~SessionIdle(u)
        /\ inactive' = [inactive EXCEPT ![u] = TRUE]
        /\ UNCHANGED <<conversations, user_data, preferences, loan_service,
                       last, run, tenure_years, api, update_queue, handling,
                       deliveries, before_language,
                       broadcast>>

\* No update handled yet
NoLast ==
    [user |-> "none", text |-> <<>>, callback |-> "none", conv |-> "app",
     ret |-> "none", exc |-> "none", replies |-> <<>>, calls |-> 0,
     decision |-> NoDecision, features |-> NoFeatures, failed |-> FALSE,
     files |-> {}]

AdvisoryCommand(Texts) ==
    \E u \in Users : \E text \in Texts[u] : \E io \in VoiceOutcomes :
        /\ io.text # "empty"
        /\ Handle(u, text, "advisory_command",
                  advisory_command(user_data[u], text, preferences[u], io))

\* A document or a photo of user u: the handlers of lines 1103-1104 take it in
\* every conversation state (the steps of the forms take text only).
HandleDocument(Senders) ==
    \E u \in Senders : \E io \in VoiceOutcomes :
        LET r == handle_document(user_data[u], io)
        IN  /\ last' = [NoLast EXCEPT !.user = u,
                                      !.callback = "handle_document",
                                      !.replies = r.replies,
                                      !.files = r.files]
            /\ run' = [run EXCEPT ![u] = NoRun]
            /\ inactive' = [inactive EXCEPT ![u] = FALSE]
            /\ UNCHANGED <<conversations, user_data, preferences,
                           loan_service, tenure_years, api, update_queue,
                           handling, deliveries, before_language,
                           broadcast>>

\* The scheduled job: send_daily_advisories goes through the users with
\* advisory_enabled.
SendDailyAdvisories ==
    \E prepare \in [Users -> {"ok", "raise"}] :
    \E outcome \in [Users -> SendOutcomes] :
        /\ deliveries' =
              [u \in Users |->
                  send_daily_advisory(u, preferences[u], prepare[u],
                                      outcome[u])]
        /\ UNCHANGED <<conversations, user_data, preferences, loan_service,
                       last, run, tenure_years, api, inactive, update_queue,
                       handling, before_language,
                       broadcast>>

\* no run of send_daily_advisories has started
NoBroadcast ==
    [phase |-> "idle", users |-> <<>>, pos |-> 0,
     attempts |-> [u \in Users |-> 0], flagged |-> {}]

\* the query of lines 39-41: the users whose row has advisory_enabled
advisory_users(prefs) ==
    {u \in Users : prefs[u].exists /\ prefs[u].advisory_enabled}

\* the orders in which a query may return the rows of a set of users
Orders(S) ==
    {seq \in [1..Cardinality(S) -> S] :
        \A i, j \in 1..Cardinality(S) : seq[i] = seq[j] => i = j}

\* the loop leaving at the first user whose pass failed
next_user_break_on_failure(users, pos, delivery) ==
    IF delivery.logged = "failed" THEN Len(users) + 1 ELSE pos + 1

\* where the loop goes after the pass for users[pos]: to the next row, also
\* after a failure (except ... continue, lines 78-80)
next_user(users, pos, delivery) == pos + 1

\* send_daily_advisories up to its loop: the query of the enabled users
BroadcastStart ==
    /\ broadcast.phase # "running"
    /\ \E users \in Orders(advisory_users(preferences)) :
          broadcast' = [phase |-> "running", users |-> users, pos |-> 1,
                        attempts |-> [u \in Users |-> 0],
                        flagged |-> {u \in Users :
                                       /\ preferences[u].exists
                                       /\ preferences[u].advisory_enabled}]
    /\ deliveries' = [u \in Users |-> NoDelivery]
    /\ UNCHANGED <<conversations, user_data, preferences, loan_service, last,
                   run, tenure_years, api, inactive, update_queue, handling,
                   before_language>>

\* One pass of the loop of send_daily_advisories, lines 46-80
BroadcastUser ==
    /\ broadcast.phase = "running"
    /\ broadcast.pos <= Len(broadcast.users)
    /\ LET u == broadcast.users[broadcast.pos]
       IN  \E prepare \in {"ok", "raise"} :
           \E outcome \in SendOutcomes :
              LET delivery == send_daily_advisory(u, preferences[u], prepare,
                                                  outcome)
              IN  /\ deliveries' = [deliveries EXCEPT ![u] = delivery]
                  /\ broadcast' =
                        [broadcast EXCEPT
                           !.attempts[u] = @ + 1,
                           !.pos = next_user(broadcast.users, broadcast.pos,
                                             delivery)]
    /\ UNCHANGED <<conversations, user_data, preferences, loan_service, last,
                   run, tenure_years, api, inactive, update_queue, handling,
                   before_language>>

\* The loop of send_daily_advisories is through: lines 82 and 87-88
BroadcastComplete ==
    /\ broadcast.phase = "running"
    /\ broadcast.pos > Len(broadcast.users)
    /\ broadcast' = [broadcast EXCEPT !.phase = "complete"]
    /\ UNCHANGED <<conversations, user_data, preferences, loan_service, last,
                   run, tenure_years, api, inactive, update_queue, handling,
                   deliveries, before_language>>

\* POST /toggle/{telegram_user_id} of the advisory routes
toggle_advisory(pref, enabled) ==
    IF pref.exists THEN [pref EXCEPT !.advisory_enabled = enabled] ELSE pref

ToggleAdvisory ==
    \E u \in Users :
    \E enabled \in BOOLEAN :
        /\ preferences[u].exists
        /\ preferences' =
              [preferences EXCEPT ![u] = toggle_advisory(@, enabled)]
        /\ UNCHANGED <<conversations, user_data, loan_service, last, run,
                       tenure_years, api, inactive, update_queue, handling,
                       deliveries, before_language, broadcast>>

\* The update loop of run_polling (lines 1114-1117): updates are fetched into
\* the update queue, and the application takes them from it one by one and
\* runs the handler that dispatch selects.

\* Application.builder() of lines 1038-1048 builds the application without
\* concurrent_updates(...): it is off.
concurrent_updates == FALSE

\* the application taking updates from the queue while handlers are running
update_fetcher_concurrent(running) == TRUE

\* Whether the application takes the next update from the queue while the
\* handlers of the updates in running have not returned: with
\* concurrent_updates off it awaits each handler before the next update.
update_fetcher(running) == concurrent_updates \/ running = <<>>

\* The updates of user u not handled yet
Outstanding(u) ==
    {i \in DOMAIN update_queue : update_queue[i].user = u} \cup
    {i \in DOMAIN handling : handling[i].user = u}

\* A user sends a message: an answer once the earlier message was answered,
\* a command at any time.  in_flight tells whether a handler of the user was
\* running when the message arrived.
GetUpdates(Texts) ==
    \E u \in Users : \E text \in Texts[u] :
        /\ Len(update_queue) + Len(handling) < MaxQueue
        /\ CommandOf[text] = <<>> => Outstanding(u) = {}
        /\ update_queue' =
              Append(update_queue,
                     [user |-> u, text |-> text,
                      in_flight |-> \E i \in DOMAIN handling :
                                       handling[i].user = u])
        /\ UNCHANGED <<conversations, user_data, preferences, loan_service,
                       last, run, tenure_years, api, inactive, handling,
                       deliveries, before_language,
                       broadcast>>

\* The application takes the oldest update and starts its handler.
ProcessUpdate ==
    /\ update_queue # <<>>
    /\ update_fetcher(handling)
    /\ handling' = Append(handling, Head(update_queue))
    /\ update_queue' = Tail(update_queue)
    /\ UNCHANGED <<conversations, user_data, preferences, loan_service, last,
                   run, tenure_years, api, inactive, deliveries,
                   before_language, broadcast>>

\* The texts of each user whose handler is running
InFlight ==
    [u \in Users |->
        {handling[i].text : i \in {j \in DOMAIN handling : handling[j].user = u}}]

----------------------------------------------------------------------------
(* The EMI calculator GET /loan/emi-calculator, src/api/routes/loan.py     *)
(* lines 265-305.  Its numbers are exact fractions num / den in lowest     *)
(* terms with den > 0; the response rounds them to two decimals.           *)

RECURSIVE Gcd(_, _)
Gcd(a, b) == IF b = 0 THEN a ELSE Gcd(b, a % b)

Abs(a) == IF a < 0 THEN -a ELSE a

Fraction(num, den) ==
    LET g == Gcd(Abs(num), Abs(den))
        sign == IF den < 0 THEN -1 ELSE 1
    IN  [num |-> sign * (num \div g), den |-> sign * (den \div g)]

RECURSIVE Power(_, _)
Power(base, n) == IF n = 0 THEN 1 ELSE base * Power(base, n - 1)

Times(x, k) == Fraction(x.num * k, x.den)

Minus(x, k) == Fraction(x.num - k * x.den, x.den)

\* calculate_emi dividing neither branch by the tenure: the zero-rate
\* instalment is the whole amount
calculate_emi_undivided(amount, interest_rate, tenure_months) ==
    IF tenure_months = 0
    THEN [status |-> 400, emi |-> Fraction(0, 1),
          total_payment |-> Fraction(0, 1), total_interest |-> Fraction(0, 1)]
    ELSE LET emi == Fraction(amount, 1)
             total_payment == Times(emi, tenure_months)
         IN  [status |-> 200, emi |-> emi, total_payment |-> total_payment,
              total_interest |-> Minus(total_payment, amount)]

\* calculate_emi: r = interest_rate / (12 * 100) is the fraction p / q and
\* (1 + r) ** n is (q + p) ** n / q ** n.  A tenure of 0 divides by zero in
\* either branch: the except of line 303 answers 400.
calculate_emi(amount, interest_rate, tenure_months) ==
    LET r == Fraction(interest_rate, 12 * 100)
        n == tenure_months
        grown == Power(r.den + r.num, n)
        flat == Power(r.den, n)
    IN  IF n = 0
        THEN [status |-> 400, emi |-> Fraction(0, 1),
              total_payment |-> Fraction(0, 1),
              total_interest |-> Fraction(0, 1)]
        ELSE LET emi == IF r.num > 0
                        THEN Fraction(amount * r.num * grown,
                                      r.den * (grown - flat))
                        ELSE Fraction(amount, n)
                 total_payment == Times(emi, n)
             IN  [status |-> 200, emi |-> emi,
                  total_payment |-> total_payment,
                  total_interest |-> Minus(total_payment, amount)]

\* GET /loan/emi-calculator with the query of api
CalculateEmi ==
    /\ api' = [api EXCEPT
                  !.response =
                      calculate_emi(api.request.loan_amount,
                                    api.request.interest_rate,
                                    api.request.tenure_months)]
    /\ UNCHANGED <<conversations, user_data, preferences, loan_service,
                   last, run, tenure_years, inactive, update_queue,
                   handling, deliveries, before_language,
                   broadcast>>

\* POST /loan/check-eligibility with the request of api
CheckEligibility ==
    \E clf \in ClassifierOutcomes :
        /\ api' = [api EXCEPT
                      !.clf = clf,
                      !.response =
                          check_loan_eligibility(api.request,
                                                 api.feature_names_in_,
                                                 loan_service, clf)]
        /\ UNCHANGED <<conversations, user_data, preferences, loan_service,
                       last, run, tenure_years, inactive, update_queue,
                       handling, deliveries, before_language,
                       broadcast>>

----------------------------------------------------------------------------
(* Specifications *)

NoClassifierCall == [raises |-> FALSE, label |-> -1]

NoApi ==
    [feature_names_in_ |-> FeatureNames, request |-> EmptyDict,
     clf |-> NoClassifierCall, response |-> NoResponse]

\* The bot before its first update
InitBot ==
    /\ conversations = [u \in Users |-> [c \in Convs |-> Idle]]
    /\ user_data = [u \in Users |-> EmptyDict]
    /\ preferences = [u \in Users |-> NoRow]
    /\ loan_service \in {"loaded", "no_model"}
    /\ last = NoLast
    /\ run = [u \in Users |-> NoRun]
    /\ tenure_years = [u \in Users |-> 0]
    /\ inactive = [u \in Users |-> FALSE]
    /\ update_queue = <<>>
    /\ handling = <<>>
    /\ deliveries = [u \in Users |-> NoDelivery]
    /\ before_language = [u \in Users |-> NoRow]
    /\ broadcast = NoBroadcast

Init ==
    /\ InitBot
    /\ api = NoApi

\* The step that takes a plain text of user u
AnswerStep(u) == Dispatch(conversations[u], TextNo).callback

\* The sessions of Spec and SpecLoan follow one user; no other user sends a
\* message in them.
Followed == {"u1"}

\* The texts each user may send next: any command, or an answer to the step
\* that takes it.
Offer ==
    [u \in Users |->
        IF u \in Followed THEN Commands \cup Answers[AnswerStep(u)] ELSE {}]

LoanOffer ==
    [u \in Users |->
        IF u \in Followed THEN LoanCommands \cup LoanAnswers[AnswerStep(u)]
        ELSE {}]

\* Every user in the loan dialogue at once, with the answers of Answers.
UsersOffer == [u \in Users |-> LoanCommands \cup Answers[AnswerStep(u)]]

\* The three forms of a session, every handler of main.
Next ==
    \/ Start(Offer)
    \/ Cancel(Offer)
    \/ LanguageCommand(Offer)
    \/ LanguageSelected(Offer)
    \/ LocationReceived(Offer)
    \/ LoanCommand(Offer)
    \/ LoanEducation(Offer)
    \/ LoanEmployment(Offer)
    \/ LoanDependents(Offer)
    \/ LoanIncome(Offer)
    \/ LoanAmount(Offer)
    \/ LoanTerm(Offer)
    \/ LoanCredit(Offer)
    \/ LoanResidential(Offer)
    \/ LoanCommercial(Offer)
    \/ LoanLuxury(Offer)
    \/ LoanBank(Offer)
    \/ FraudCommand(Offer)
    \/ FraudSchemeName(Offer)
    \/ FraudDescription(Offer)
    \/ FraudSource(Offer)
    \/ HandleTextQuery(Offer)
    \/ Dropped(Offer)
    \/ TimePasses

Spec == Init /\ [][Next]_vars

\* The loan dialogue alone, with the answers of LoanAnswers.
NextLoan ==
    \/ Cancel(LoanOffer)
    \/ LoanCommand(LoanOffer)
    \/ LoanEducation(LoanOffer)
    \/ LoanEmployment(LoanOffer)
    \/ LoanDependents(LoanOffer)
    \/ LoanIncome(LoanOffer)
    \/ LoanAmount(LoanOffer)
    \/ LoanTerm(LoanOffer)
    \/ LoanCredit(LoanOffer)
    \/ LoanResidential(LoanOffer)
    \/ LoanCommercial(LoanOffer)
    \/ LoanLuxury(LoanOffer)
    \/ LoanBank(LoanOffer)
    \/ HandleTextQuery(LoanOffer)
    \/ Dropped(LoanOffer)

SpecLoan == Init /\ [][NextLoan]_vars

\* The loan dialogues of all users, their messages interleaved.
NextUsers ==
    \/ Cancel(UsersOffer)
    \/ LoanCommand(UsersOffer)
    \/ LoanEducation(UsersOffer)
    \/ LoanEmployment(UsersOffer)
    \/ LoanDependents(UsersOffer)
    \/ LoanIncome(UsersOffer)
    \/ LoanAmount(UsersOffer)
    \/ LoanTerm(UsersOffer)
    \/ LoanCredit(UsersOffer)
    \/ LoanResidential(UsersOffer)
    \/ LoanCommercial(UsersOffer)
    \/ LoanLuxury(UsersOffer)
    \/ LoanBank(UsersOffer)
    \/ HandleTextQuery(UsersOffer)
    \/ Dropped(UsersOffer)

SpecUsers == Init /\ [][NextUsers]_vars

\* What the users send into the update loop: one a command of the loan form
\* or the well-formed answer to the step the user is at, the others /loan.
LoopOffer ==
    [u \in Users |->
        IF u \in Followed THEN LoanCommands \cup {Canonical(AnswerStep(u))}
        ELSE {Slash(NameLoan)}]

\* The loan dialogues through the update loop: messages arrive while
\* handlers run, and a handler's action is its return.
NextLoop ==
    \/ GetUpdates(LoopOffer)
    \/ ProcessUpdate
    \/ Cancel(InFlight)
    \/ LoanCommand(InFlight)
    \/ LoanEducation(InFlight)
    \/ LoanEmployment(InFlight)
    \/ LoanDependents(InFlight)
    \/ LoanIncome(InFlight)
    \/ LoanAmount(InFlight)
    \/ LoanTerm(InFlight)
    \/ LoanCredit(InFlight)
    \/ LoanResidential(InFlight)
    \/ LoanCommercial(InFlight)
    \/ LoanLuxury(InFlight)
    \/ LoanBank(InFlight)
    \/ HandleTextQuery(InFlight)
    \/ Dropped(InFlight)

SpecLoop == Init /\ [][NextLoop]_vars

\* What the followed user sends in SpecDelivery: onboarding in English or
\* Punjabi, and the loan dialogue
DeliveryOffer ==
    [u \in Users |->
        IF u \notin Followed THEN {}
        ELSE IF AnswerStep(u) = "language_selected"
        THEN {TextEnglish, TextPunjabi}
        ELSE LoanCommands \cup {Slash(NameLanguage)}
                          \cup Answers[AnswerStep(u)]]

\* The loan dialogue with the calls after the decision failing
NextDelivery ==
    \/ LanguageCommand(DeliveryOffer)
    \/ LanguageSelected(DeliveryOffer)
    \/ LocationReceived(DeliveryOffer)
    \/ Cancel(DeliveryOffer)
    \/ LoanCommand(DeliveryOffer)
    \/ LoanEducation(DeliveryOffer)
    \/ LoanEmployment(DeliveryOffer)
    \/ LoanDependents(DeliveryOffer)
    \/ LoanIncome(DeliveryOffer)
    \/ LoanAmount(DeliveryOffer)
    \/ LoanTerm(DeliveryOffer)
    \/ LoanCredit(DeliveryOffer)
    \/ LoanResidential(DeliveryOffer)
    \/ LoanCommercial(DeliveryOffer)
    \/ LoanLuxury(DeliveryOffer)
    \/ LoanBank(DeliveryOffer)
    \/ LoanBankUndelivered(DeliveryOffer)
    \/ HandleTextQuery(DeliveryOffer)
    \/ Dropped(DeliveryOffer)

SpecDelivery == Init /\ [][NextDelivery]_vars

\* What the followed user sends in the onboarding dialogue
OnboardingOffer ==
    [u \in Users |->
        IF u \in Followed
        THEN {Slash(NameLanguage), Slash(NameCancel), Slash(NameAdvisory)}
             \cup OnboardingAnswers[AnswerStep(u)]
        ELSE {}]

\* Onboarding, the answers with a voice message and the daily broadcast
NextOnboarding ==
    \/ LanguageCommand(OnboardingOffer)
    \/ LanguageSelected(OnboardingOffer)
    \/ LocationReceived(OnboardingOffer)
    \/ Cancel(OnboardingOffer)
    \/ AdvisoryCommand(OnboardingOffer)
    \/ HandleTextQuery(OnboardingOffer)
    \/ Dropped(OnboardingOffer)
    \/ HandleDocument(Followed)
    \/ SendDailyAdvisories

SpecOnboarding == Init /\ [][NextOnboarding]_vars

\* What the users send while the daily broadcast runs: the onboarding
\* dialogue, once
BroadcastOffer ==
    [u \in Users |->
        IF AnswerStep(u) = "language_selected" THEN {TextEnglish}
        ELSE IF AnswerStep(u) = "location_received" THEN {TextJaipur}
        ELSE IF preferences[u].exists THEN {}
        ELSE {Slash(NameLanguage)}]

\* The daily broadcast beside the onboarding of the users and the toggle
\* route
NextBroadcast ==
    \/ LanguageCommand(BroadcastOffer)
    \/ LanguageSelected(BroadcastOffer)
    \/ LocationReceived(BroadcastOffer)
    \/ ToggleAdvisory
    \/ BroadcastStart
    \/ BroadcastUser
    \/ BroadcastComplete

\* The scheduler's job runs to its end once started: every pass of the loop
\* returns or raises, and the event loop resumes the job
SpecBroadcast ==
    /\ Init
    /\ [][NextBroadcast]_vars
    /\ WF_vars(BroadcastUser)
    /\ WF_vars(BroadcastComplete)

\* The decision service behind the stateless endpoint: every request of
\* ApiRequests, every column order of ColumnOrders.
Reverse(seq) == [i \in 1..Len(seq) |-> seq[Len(seq) + 1 - i]]

Rotate(seq) == Tail(seq) \o <<Head(seq)>>

SwapEnds(seq) ==
    [i \in 1..Len(seq) |->
        IF i = 1 THEN seq[Len(seq)] ELSE IF i = Len(seq) THEN seq[1] ELSE seq[i]]

\* feature_names_in_ of the classifier (<<>>: it has no such attribute)
ColumnOrders ==
    {FeatureNames, Reverse(FeatureNames), Rotate(FeatureNames),
     SwapEnds(FeatureNames), <<>>}

\* loan_term of a request, in months
TermMonths == {1, 12, 20, 21, 30, 120, 246, 360}

CreditScores == {300, 699, 700, 749, 750, 900}

\* LoanRequest, lines 18-53, with the field constraints of its Field(...)s
ApiRequests ==
    [no_of_dependents : {0},
     education : {TextGraduate, TextNotGraduate, TextNo},
     self_employed : {TextYes, TextNo},
     income_annum : {1},
     loan_amount : {1, 6},
     loan_term : TermMonths,
     cibil_score : CreditScores,
     residential_assets_value : {0},
     commercial_assets_value : {0},
     luxury_assets_value : {0},
     bank_asset_value : {0}]

InitService ==
    /\ InitBot
    /\ \E request \in ApiRequests : \E order \in ColumnOrders :
          api = [NoApi EXCEPT !.request = request,
                              !.feature_names_in_ = order]

NextService == CheckEligibility

SpecService == InitService /\ [][NextService]_vars

\* The queries of the EMI calculator: amounts up to MaxPrincipal, a yearly
\* rate of 0, 12 or 1200 percent (0, 1/100 or 1 a month), tenures up to
\* MaxTenure months
EmiQueries ==
    [loan_amount : 1..MaxPrincipal, interest_rate : {0, 12, 1200},
     tenure_months : 0..MaxTenure]

InitEmi ==
    /\ InitBot
    /\ \E query \in EmiQueries : api = [NoApi EXCEPT !.request = query]

NextEmi == CalculateEmi

SpecEmi == InitEmi /\ [][NextEmi]_vars

----------------------------------------------------------------------------
(* Claims *)

StoreOf(form) == IF form = "loan" THEN "loan_data" ELSE "fraud_data"

HasFeatures(f) == DOMAIN f # {}

\* The last update ended a loan form with a decision of the classifier.
Decided ==
    /\ last.callback = "loan_bank"
    /\ last.decision.message \in {"approved", "rejected"}

\* C1: a form started from a session with no active conversation and
\* answered with valid answers only invokes the decision service exactly once,
\* at the last answer, sends exactly one outcome message, and ends with no
\* active conversation and the form's store removed.
C1_FormRunDecidesOnce ==
    \A u \in Users :
        LET r == run[u]
        IN  /\ (r.form # "none" /\ r.n < FormLength(r.form))
                  => (r.calls = 0 /\ r.results = 0)
            /\ (r.form # "none" /\ r.n = FormLength(r.form))
                  => /\ r.calls = 1
                     /\ r.results = 1
                     /\ SessionIdle(u)
                     /\ ~Has(user_data[u], StoreOf(r.form))

C1_Witness ==
    \E u \in Users :
        /\ run[u].form = "loan"
        /\ run[u].n = 11
        /\ last.replies = <<<<"processing", "loan">>, <<"result", "approved">>>>

\* C2: after a /cancel the user's conversations are all Idle, no decision
\* was produced and no collected fields are left.
C2_CancelReturnsToIdle ==
    last.text = Slash(NameCancel)
        => /\ SessionIdle(last.user)
           /\ last.calls = 0
           /\ ~Has(user_data[last.user], "loan_data")
           /\ ~Has(user_data[last.user], "fraud_data")

\* C3: at most one of a user's three conversations is in a field-state.
C3_OneActiveForm ==
    \A u \in Users :
        Cardinality({c \in Convs : conversations[u][c] # Idle}) <= 1

FirstState(c) ==
    IF c = "lang_conv" THEN LANGUAGE_SELECT
    ELSE IF c = "loan_conv" THEN LOAN_EDUCATION
    ELSE FRAUD_SCHEME_NAME

ConvStore(c) ==
    IF c = "loan_conv" THEN {"loan_data"}
    ELSE IF c = "fraud_conv" THEN {"fraud_data"}
    ELSE {"selected_language"}

\* C4: the start command of form B, sent in a field-state of form A, puts
\* the session in B's first field-state; A (when another form) is no longer
\* active and its collected fields are gone; the next plain text is taken by
\* the handler of B's first field.
C4_NewFormSupersedes ==
    [][\A u \in Users : \A a, b \in Convs :
          (/\ conversations[u][a] # Idle
           /\ last'.user = u
           /\ last'.text = Slash(ConvDef(b).entry_command))
          => /\ conversations'[u][b] = FirstState(b)
             /\ a # b => /\ conversations'[u][a] = Idle
                         /\ ConvStore(a) \cap DOMAIN user_data'[u] = {}
             /\ Dispatch(conversations'[u], TextNo).callback
                   = ConvDef(b).states[FirstState(b)]]_vars

\* C5: an input a validated loan step rejects leaves the conversation in
\* the same field-state and the session's data as they were, is answered by
\* the step's validation error alone, and no exception leaves a validated
\* step; a text that is no number is rejected at each of these steps.
C5_RejectedInputChangesNothing ==
    [][last'.callback \in ValidatedSteps
          => LET u == last'.user
                 state == conversations[u]["loan_conv"]
                 rejected == last'.replies[1][1] = "validation_error"
             IN  /\ last'.exc = "none"
                 /\ ~ParseFloat(last'.text).ok => rejected
                 /\ rejected
                       => /\ last'.ret = state
                          /\ conversations' = conversations
                          /\ user_data' = user_data
                          /\ last'.replies = <<ValidationError(state)>>
                          /\ last'.calls = 0]_vars

C5_Witness ==
    /\ last.callback = "loan_term"
    /\ last.text = IntText(31)
    /\ last.replies = <<ValidationError(LOAN_TERM)>>
    /\ Has(user_data[last.user], "loan_data")
    /\ Has(user_data[last.user]["loan_data"], "loan_amount")

\* C6: the tenure step accepts an integer t iff 1 <= t <= 30 and the
\* credit-score step accepts an integer c iff 300 <= c <= 900.
C6_RangeDecidesAcceptance ==
    /\ (last.callback = "loan_term" /\ ParseInt(last.text).ok)
          => (last.ret = LOAN_CREDIT <=> ParseInt(last.text).val \in 1..30)
    /\ (last.callback = "loan_credit" /\ ParseInt(last.text).ok)
          => (last.ret = LOAN_RESIDENTIAL
                 <=> ParseInt(last.text).val \in 300..900)

\* C7: a committed income_annum and a committed loan_amount are > 0.
C7_IncomeAndAmountPositive ==
    \A u \in Users :
        Has(user_data[u], "loan_data")
            => LET loan_data == user_data[u]["loan_data"]
               IN  /\ Has(loan_data, "income_annum")
                        => loan_data["income_annum"] > 0
                   /\ Has(loan_data, "loan_amount")
                        => loan_data["loan_amount"] > 0

\* C8: the committed dependents count and the four committed asset values
\* are >= 0 (the bank assets, committed by the last step, are read from the
\* row the decision was made on).
C8_DependentsAndAssetsNonNegative ==
    /\ \A u \in Users :
          Has(user_data[u], "loan_data")
              => \A f \in {"no_of_dependents", "residential_assets_value",
                           "commercial_assets_value", "luxury_assets_value"} :
                     Has(user_data[u]["loan_data"], f)
                         => user_data[u]["loan_data"][f] >= 0
    /\ HasFeatures(last.features) => last.features.bank_asset_value >= 0

\* C9: the decision reports tenure_months = 12 * y for the tenure y entered,
\* and 12 * y is the period of the EMI formula.
C9_TenureMonths ==
    Decided
        => LET y == tenure_years[last.user]
           IN  /\ last.decision.tenure_months = 12 * y
               /\ ~last.decision.emi.zero => last.decision.emi.n = 12 * y

\* C10: the classifier's loan_term feature is clamp(y, 2, 20) for the tenure
\* y entered.
C10_ModelTenureYears ==
    (last.callback = "loan_bank" /\ HasFeatures(last.features))
        => last.features.loan_term = Max(2, Min(20, tenure_years[last.user]))

----------------------------------------------------------------------------
(* Claims on the decision service *)

\* The endpoint answered the request of api.
Answered == api.response.status # 0

\* The classifier was unavailable or raised on the request of api.
ClassifierFailed == loan_service = "no_model" \/ api.clf.raises

\* The answer carries a decision of the classifier.
AnsweredDecision == Answered /\ ~ClassifierFailed

\* The value of a column of the row handed to the classifier
Column(columns, name) ==
    LET i == CHOOSE i \in 1..Len(columns) : columns[i][1] = name
    IN  columns[i][2]

\* C11: for a loan_term of m > 0 months the decision's tenure_months is m
\* and the classifier's loan_term feature is clamp(round(m / 12), 2, 20).
C11_MonthsInMonthsOut ==
    AnsweredDecision
        => LET m == api.request.loan_term
           IN  /\ api.response.body.tenure_months = m
               /\ Column(api.response.columns, "loan_term")
                     = Max(2, Min(20, RoundDiv12(m)))

\* C12: when the classifier declares the 11 feature names in some order, the
\* row has 11 columns, in the declared order, each with the value derived
\* from the intake field of its name.
C12_ColumnsInDeclaredOrder ==
    (Answered /\ loan_service = "loaded" /\ api.feature_names_in_ # <<>>)
        => LET columns == api.response.columns
               derived == _prepare_features(api.request)
           IN  /\ Len(columns) = 11
               /\ \A i \in 1..11 :
                     /\ columns[i][1] = api.feature_names_in_[i]
                     /\ columns[i][2] = derived[api.feature_names_in_[i]]
               /\ Column(columns, "income_annum") = api.request.income_annum
               /\ Column(columns, "cibil_score") = api.request.cibil_score
               /\ Column(columns, "loan_amount") = api.request.loan_amount

C12_Witness ==
    /\ Answered
    /\ loan_service = "loaded"
    /\ api.feature_names_in_ = Reverse(FeatureNames)
    /\ api.response.columns[1] = <<"bank_asset_value", 0>>
    /\ api.response.columns[5] = <<"cibil_score", 750>>
    /\ api.response.columns[11] = <<"no_of_dependents", 0>>

\* C13: the education flag is 1 for "Graduate" and 0 for "Not Graduate";
\* the self-employment flag is 1 for "Yes" and 0 for "No".
C13_OfferedAnswersFlags ==
    (Answered /\ loan_service = "loaded")
        => LET columns == api.response.columns
           IN  /\ api.request.education = TextGraduate
                     => Column(columns, "education") = 1
               /\ api.request.education = TextNotGraduate
                     => Column(columns, "education") = 0
               /\ api.request.self_employed = TextYes
                     => Column(columns, "self_employed") = 1
               /\ api.request.self_employed = TextNo
                     => Column(columns, "self_employed") = 0

C15_FailureIsNoDecision ==
    (Answered /\ ClassifierFailed)
        => ~(/\ api.response.status = 200
             /\ api.response.body.eligible \in BOOLEAN)

\* C16: when the last loan answer is valid and the decision call fails, the
\* loan conversation is Idle again, loan_data is removed, and the user gets
\* the error message, no approval and no rejection.
C16_FailedDecisionResets ==
    (last.callback = "loan_bank" /\ last.calls = 1 /\ last.failed)
        => /\ conversations[last.user]["loan_conv"] = Idle
           /\ ~Has(user_data[last.user], "loan_data")
           /\ last.exc = "none"
           /\ \E i \in 1..Len(last.replies) :
                 last.replies[i] = <<"result", "error">>
           /\ \A i \in 1..Len(last.replies) :
                 last.replies[i] \notin {<<"result", "approved">>,
                                         <<"result", "rejected">>}

C16_Witness ==
    /\ last.callback = "loan_bank"
    /\ last.calls = 1
    /\ last.failed
    /\ loan_service = "loaded"
    /\ conversations[last.user]["loan_conv"] = Idle

\* C17: the first message of a user whose conversation has been inactive
\* beyond the threshold resets the session to Idle, discards the collected
\* fields, and is answered by the session-expired notice alone.
C17_IdleTimeoutResets ==
    [][\A u \in Users :
          (inactive[u] /\ ~SessionIdle(u) /\ ~inactive'[u])
          => /\ \A c \in Convs : conversations'[u][c] = Idle
             /\ user_data'[u] = EmptyDict
             /\ last'.replies = <<<<"session_expired", "">>>>]_vars

\* C18: the interest rate is 8.5 for a credit score >= 750, 10.0 for
\* 700..749 and 12.0 below (rates in tenths of a percent).
C18_InterestRateTiers ==
    AnsweredDecision
        => LET c == api.request.cibil_score
           IN  api.response.body.interest_rate
                  = IF c >= 750 THEN 85 ELSE IF c >= 700 THEN 100 ELSE 120

C18_Witness ==
    /\ AnsweredDecision
    /\ api.request.cibil_score = 750
    /\ api.response.body.interest_rate = 85

\* C19: recommended_amount is min(requested amount, 5 * annual income) when
\* the label is eligible and 0 when it is not.
C19_RecommendedAmount ==
    AnsweredDecision
        => LET requested == api.request.loan_amount
               capped == 5 * api.request.income_annum
           IN  api.response.body.recommended_amount
                  = IF api.clf.label = 1
                    THEN (IF requested <= capped THEN requested ELSE capped)
                    ELSE 0

C19_Witness ==
    /\ AnsweredDecision
    /\ api.clf.label = 1
    /\ api.request.loan_amount = 6
    /\ api.response.body.recommended_amount = 5

\* C20: on the negative class the decision is eligible = false with
\* recommended_amount = 0, emi = 0 and the rejection template; and emi = 0
\* whenever recommended_amount = 0.
C20_RejectionIsZero ==
    /\ (AnsweredDecision /\ api.clf.label = 0)
          => /\ api.response.body.eligible = FALSE
             /\ api.response.body.recommended_amount = 0
             /\ api.response.body.emi.zero
             /\ api.response.body.message = "rejected"
    /\ (Answered /\ api.response.body.recommended_amount = 0)
          => api.response.body.emi.zero

C20_Witness ==
    /\ AnsweredDecision
    /\ api.clf.label = 0
    /\ api.response.body.message = "rejected"
    /\ api.response.body.emi.zero

----------------------------------------------------------------------------
(* Claims C21..C30 *)

\* C21: handling a message of one user (a start, an answer or a cancel)
\* leaves every other user's conversation states and collected fields as they
\* were, whatever the interleaving of the users' messages.
C21_OtherUsersUntouched ==
    [][\A b \in Users :
          last'.user # b =>
              /\ conversations'[b] = conversations[b]
              /\ user_data'[b] = user_data[b]]_vars

\* Both users are in the middle of a loan form, at different steps, and the
\* message handled last was a cancel of the first.
C21_Witness ==
    /\ last.user = "u1"
    /\ last.callback = "cancel"
    /\ conversations["u2"]["loan_conv"] = LOAN_INCOME
    /\ Has(user_data["u2"], "loan_data")
    /\ Has(user_data["u2"]["loan_data"], "no_of_dependents")
    /\ user_data["u1"] = EmptyDict

\* C22: two messages of the same user are never handled at the same time: the
\* handler of the second starts only after the handler of the first returned.
C22_OneHandlerPerUser ==
    \A i, j \in DOMAIN handling :
        i # j => handling[i].user # handling[j].user

\* A second message of the user waits in the queue while the handler of the
\* first runs.
C22_Witness ==
    \E u \in Users :
        /\ \E i \in DOMAIN handling : handling[i].user = u
        /\ \E i \in DOMAIN update_queue : update_queue[i].user = u

\* C23: while the handler of one user waits on an external call (the
\* classifier, translation, speech, delivery), the message of another user
\* at the head of the queue can be taken and handled: its progress does not
\* depend on the first user's call returning.
C23_OtherUsersProgress ==
    \A a, b \in Users :
        (/\ a # b
         /\ \E i \in DOMAIN handling : handling[i].user = a
         /\ update_queue # <<>>
         /\ Head(update_queue).user = b)
        => ENABLED ProcessUpdate

\* C24: a delivery call that fails with a transient network or timeout error
\* is retried (at least one more attempt is made), and when the attempts all
\* fail the failure is surfaced: the delivery is not recorded as sent.
C24_TransientFailureRetried ==
    \A u \in Users :
        deliveries[u].outcome \in TransientFailures =>
            /\ deliveries[u].attempts >= 2
            /\ deliveries[u].logged # "sent"

\* C25: when the user's /cancel arrives while the decision call of the user's
\* completed loan form is in flight, the decision that comes back is
\* discarded: the final step sends no approval or rejection message.
C25_CancelDiscardsDecision ==
    [][\A u \in Users :
          (/\ \E i \in DOMAIN update_queue :
                  update_queue[i] = [user |-> u, text |-> Slash(NameCancel),
                                     in_flight |-> TRUE]
           /\ handling' # handling
           /\ last'.user = u
           /\ last'.callback = "loan_bank"
           /\ last'.calls = 1)
          => \A k \in DOMAIN last'.replies : last'.replies[k][1] # "result"]_vars

\* C26: when the decision has been computed and a later translation or
\* delivery step fails, the decision is not replaced by the outcome of a
\* failed check: the user is not told that the check failed, and the
\* session ends Idle.
C26_DecisionSurvivesDelivery ==
    (last.callback = "loan_bank" /\ last.calls = 1 /\ ~last.failed) =>
        /\ \A k \in DOMAIN last.replies :
               last.replies[k] # <<"error", "eligibility">>
        /\ conversations[last.user]["loan_conv"] = Idle

Kinds(replies) == {replies[k][1] : k \in DOMAIN replies}

\* C27: in advisory_command and handle_document, when speech synthesis or the
\* delivery of the audio fails (the text answer went out and no audio did),
\* the text answer is the last message of the handler, no error message is
\* sent, and the handler returns normally.
C27_AudioFailureIsQuiet ==
    (/\ last.callback \in {"advisory_command", "handle_document"}
     /\ "answer" \in Kinds(last.replies)
     /\ "audio" \notin Kinds(last.replies))
    => /\ last.exc = "none"
       /\ "error" \notin Kinds(last.replies)
       /\ last.replies[Len(last.replies)][1] = "answer"

\* /advisory was answered in text, and the audio was not delivered.
C27_Witness ==
    /\ last.callback = "advisory_command"
    /\ last.replies = <<<<"processing", "advisory">>, <<"answer", "advisory">>>>

\* C28: cancelling the onboarding form at any step, also between the language
\* answer and the location answer, leaves the user's stored preference as it
\* was before the /language that started the form.
C28_CancelKeepsPreference ==
    [][\A u \in Users :
          (/\ conversations[u]["lang_conv"] # Idle
           /\ last'.user = u
           /\ last'.callback = "cancel")
          => preferences'[u] = before_language[u]]_vars

\* the locale each button of the selection keyboard names
ButtonLocale(button) ==
    IF button = TextEnglish THEN "en"
    ELSE IF button = Both(NativeHindi, TextHindi) THEN "hi"
    ELSE IF button = Both(NativePunjabi, TextPunjabi) THEN "pa"
    ELSE IF button = Both(NativeMalayalam, TextMalayalam) THEN "ml"
    ELSE "ta"

\* C29: at the language step, the locale stored for an answer is the locale of
\* every answer that differs from it only in case, and the locale stored for
\* a button of the selection keyboard is the one the button names.
C29_LocaleOfAnswer ==
    (last.callback = "language_selected" /\ last.exc = "none") =>
        LET stored == preferences[last.user].preferred_language
        IN  /\ \A other \in OnboardingAnswers["language_selected"] :
                   Lower(other) = Lower(last.text) =>
                       LanguageCode(other) = stored
            /\ last.text \in keyboard => stored = ButtonLocale(last.text)

\* C30: when a step of the loan form runs for a user whose session holds no
\* collected-field store, no answer is committed, the conversation returns to
\* Idle and the user is told to restart: the handler neither continues the
\* old form nor fails with an exception.
C30_MissingStoreResets ==
    [][\A u \in Users :
          (/\ ~Has(user_data[u], "loan_data")
           /\ last'.user = u
           /\ last'.callback \in {LoanCallbacks[i] : i \in 1..11})
          => /\ last'.exc = "none"
             /\ user_data'[u] = user_data[u]
             /\ conversations'[u]["loan_conv"] = Idle
             /\ \E k \in DOMAIN last'.replies :
                    last'.replies[k][1] = "restart"]_vars

----------------------------------------------------------------------------
(* Claims C31..C38 *)

\* the next field-state after each state of the loan dialogue
Successor(state) ==
    IF state = Idle THEN LOAN_EDUCATION
    ELSE IF state = LOAN_BANK THEN Idle
    ELSE LoanStates[(CHOOSE i \in 1..10 : LoanStates[i] = state) + 1]

\* C31: the loan dialogue visits its field-states in the fixed order of the
\* eleven questions: a step changes the state to the next position only, a
\* committed answer advances it, and the decision service is called from the
\* last step only, with all eleven fields in loan_data.
C31_FixedOrder ==
    [][\A u \in Users :
          LET old == conversations[u]["loan_conv"]
              new == conversations'[u]["loan_conv"]
              fields == IF Has(user_data[u], "loan_data")
                        THEN DOMAIN user_data[u]["loan_data"] ELSE {}
              fields_after == IF Has(user_data'[u], "loan_data")
                              THEN DOMAIN user_data'[u]["loan_data"] ELSE {}
          IN  /\ new # old => new = Successor(old)
              /\ (fields_after \ fields # {}) => new # old
              /\ (last'.user = u /\ last'.calls = 1) =>
                     /\ old = LOAN_BANK
                     /\ fields \cup {"bank_asset_value"} =
                            {FeatureNames[i] : i \in 1..11}]_vars

\* The last answer of a loan form was handled and the decision made.
C31_Witness ==
    /\ last.callback = "loan_bank"
    /\ last.calls = 1
    /\ conversations[last.user]["loan_conv"] = Idle
    /\ DOMAIN last.features # {}

C33_FieldStateHasStore ==
    \A u \in Users :
        /\ conversations[u]["loan_conv"] # Idle => Has(user_data[u], "loan_data")
        /\ conversations[u]["fraud_conv"] # Idle =>
               Has(user_data[u], "fraud_data")

\* C34: after a loan form of the user has ended (by its decision, by a
\* decision error or by /cancel), the user's next message /loan is taken as a
\* form start: the dialogue is at the first field with an empty loan_data.
C34_LoanRestarts ==
    [][\A u \in Users :
          (/\ last.user = u
           /\ \/ last.callback = "cancel"
              \/ last.callback = "loan_bank" /\ last.calls = 1
           /\ last'.user = u
           /\ last'.text = Slash(NameLoan))
          => /\ last'.callback = "loan_command"
             /\ conversations'[u]["loan_conv"] = LOAN_EDUCATION
             /\ Has(user_data'[u], "loan_data")
             /\ DOMAIN user_data'[u]["loan_data"] = {}]_vars

\* C35: a plain-text message is consumed by one handler: while a form is
\* active for the user it is the answer to the current step of an active
\* form and handle_text_query does not run; while no form is active it is
\* handled by handle_text_query.
C35_OneHandlerPerText ==
    [][\A u \in Users :
          (/\ last'.user = u
           /\ ~inactive'[u]
           /\ last'.text \in AllTexts
           /\ CommandOf[last'.text] = <<>>)
          => IF SessionIdle(u)
             THEN last'.callback = "handle_text_query"
             ELSE \E c \in Convs :
                     /\ conversations[u][c] # Idle
                     /\ last'.callback = ConvDef(c).states[conversations[u][c]]]_vars

\* A text was taken as the answer to the first question of the fraud form.
C35_Witness ==
    /\ last.callback = "fraud_scheme_name"
    /\ last.exc = "none"
    /\ conversations[last.user]["fraud_conv"] = FRAUD_DESCRIPTION

\* C36: every decision produced from a completed loan dialogue has a
\* recommended amount of at least 0 and an EMI of at least 0, and the
\* approval message is composed only with a recommended amount above 0.
C36_DecisionAmounts ==
    (/\ last.callback = "loan_bank"
     /\ last.calls = 1
     /\ last.decision # NoDecision)
    => /\ last.decision.recommended_amount >= 0
       /\ \/ last.decision.emi.zero
          \/ last.decision.emi.principal > 0
       /\ last.decision.message = "approved"
             => last.decision.recommended_amount > 0

C38_NoFileLeft ==
    last.callback \in {"advisory_command", "handle_document"}
    => last.files = {}

====
